---- MODULE Spec2Model ----
(***************************************************************************)
(* Model of scripts/amdecrypt.py: the fragment sample extractor            *)
(* (extract_song, _parse_moof_mdat), the decryption session client         *)
(* (decrypt_samples) and the orchestrator (decrypt_file,                   *)
(* write_decrypted_m4a).                                                   *)
(*                                                                         *)
(* Byte strings are sequences of 0..255.  Python str values are sequences  *)
(* of code points.  The connection is the sequence of write() calls that   *)
(* have been flushed to the socket, each tagged with the statement that    *)
(* issued it.                                                              *)
(***************************************************************************)
EXTENDS Integers, Sequences, FiniteSets, TLC

VARIABLES
    \* ---- decrypt_file / decrypt_samples ----
    samples,          \* song_info.samples handed to decrypt_samples
    track_id,         \* caller's track identifier (code points)
    fairplay_key,     \* caller's key URI (code points)
    pc,               \* position in decrypt_file / decrypt_samples
    i,                \* 1-based index of the sample being processed
    last_desc_index,  \* decrypt_samples' local of the same name
    decrypted_data,   \* the bytearray being built
    wbuf,             \* sock_writer's buffer: writes not yet flushed
    wire,             \* writes that reached the connection, in order
    rx,               \* bytes the client has read from the connection
    sock,             \* "none" | "created" | "connected" | "closed"
    exc,              \* exception in flight / raised, "none" if none
    result,           \* value returned by decrypt_samples
    temp_file,        \* output_path + ".tmp.m4a"
    output_file,      \* output_path
    \* ---- extract_song ----
    epc,              \* position in extract_song
    raw_data,         \* the bytes of the input file
    offset,           \* first pass: offset of the next top-level box
    boxes,            \* top-level boxes collected by the first pass
    bi,               \* second pass: 1-based index of the box it is at
    moof_box,         \* pending fragment header, None when cleared
    song_samples,     \* song_info.samples being built
    ftyp_data,        \* song_info.ftyp_data
    moov_data,        \* song_info.moov_data
    \* ---- a single call of one of the module's functions ----
    call,             \* the function called and its arguments, None if none
    ret,              \* what the call returned or raised, None before it ends
    \* ---- write_decrypted_m4a while it writes the temporary file ----
    outf,             \* the open file f: its bytes and position, None if not open
    mux,              \* the muxer's locals and the statement reached, None if idle
    \* ---- two calls of decrypt_file in progress at once ----
    other             \* the locals and files of the call that is not taking the
                      \* step, None when there is one call only

dvars == <<samples, track_id, fairplay_key, pc, i, last_desc_index,
           decrypted_data, wbuf, wire, rx, sock, exc, result,
           temp_file, output_file>>
evars == <<epc, raw_data, offset, boxes, bi, moof_box, song_samples,
           ftyp_data, moov_data>>
fvars == <<call, ret, outf, mux, other>>
vars == <<dvars, evars, fvars>>

-----------------------------------------------------------------------------
(* Bounds *)

MaxSamples == 3
MaxBoxes == 4

-----------------------------------------------------------------------------
(* Generic helpers *)

Min(a, b) == IF a < b THEN a ELSE b

\* Python's None
None == [none |-> TRUE]

RECURSIVE Flatten(_)
Flatten(ss) == IF ss = <<>> THEN <<>> ELSE Head(ss) \o Flatten(Tail(ss))

\* n bytes start+1, start+2, ... (mod 256): sample bytes that differ by position
Bytes(n, start) == [k \in 1..n |-> (start + k) % 256]

Repeat(n, c) == [k \in 1..n |-> c]

-----------------------------------------------------------------------------
(* Constants of the program *)

\* PREFETCH_KEY = "skd://itunes.apple.com/P000000000/s1/e1"
PREFETCH_KEY ==
    <<115, 107, 100, 58, 47, 47, 105, 116, 117, 110, 101, 115, 46, 97, 112,
      112, 108, 101, 46, 99, 111, 109, 47, 80, 48, 48, 48, 48, 48, 48, 48,
      48, 48, 47, 115, 49, 47, 101, 49>>

\* last_desc_index = 255: the value that stands for "no key sent yet"
NoKeySentinel == 255

\* struct.pack("B", n) accepts 0 <= n <= 255
MaxUByte == 255

\* truncated_len = sample_len & ~0xf
BlockMask == 15

-----------------------------------------------------------------------------
(* Encodings *)

\* str.encode("utf-8") for code points below 0x800
Utf8Char(c) ==
    IF c < 128 THEN <<c>> ELSE <<192 + (c \div 64), 128 + (c % 64)>>

\* the encodings of the code points, concatenated (split in halves to keep
\* the evaluation shallow on long strings)
RECURSIVE Utf8Encode(_)
Utf8Encode(s) ==
    IF s = <<>> THEN <<>>
    ELSE IF Len(s) = 1 THEN Utf8Char(s[1])
    ELSE LET h == Len(s) \div 2
         IN Utf8Encode(SubSeq(s, 1, h)) \o Utf8Encode(SubSeq(s, h + 1, Len(s)))

\* struct.pack("<I", n)
PackLE32(n) ==
    <<n % 256, (n \div 256) % 256, (n \div 65536) % 256, (n \div 16777216) % 256>>

\* n & ~m on non-negative integers: clear in n every bit set in m
RECURSIVE BitAndNot(_, _)
BitAndNot(n, m) ==
    IF n = 0 THEN 0
    ELSE 2 * BitAndNot(n \div 2, m \div 2)
         + (IF m % 2 = 1 THEN 0 ELSE n % 2)

TruncatedLenM(sample_len) == BitAndNot(sample_len, 31)

\* truncated_len = sample_len & ~0xf
TruncatedLen(sample_len) == BitAndNot(sample_len, BlockMask)

\* one write() call on sock_writer
W(tag, bytes) == [tag |-> tag, bytes |-> bytes]

-----------------------------------------------------------------------------
(* Inputs of decrypt_samples *)

DescIndices == {0, 1, NoKeySentinel}

SampleDatas == {Bytes(5, 0), Bytes(16, 64), Bytes(35, 128)}

SampleInfo(data, duration, desc_index) ==
    [data |-> data, duration |-> duration, desc_index |-> desc_index]

SampleInfos == {SampleInfo(d, 1024, x) : d \in SampleDatas, x \in DescIndices}

RECURSIVE SeqsUpTo(_, _)
SeqsUpTo(S, n) ==
    IF n = 0 THEN {<<>>}
    ELSE LET shorter == SeqsUpTo(S, n - 1)
         IN shorter \cup {Append(s, x) : s \in {t \in shorter : Len(t) = n - 1}, x \in S}

\* (track_id, fairplay_key) pairs: ordinary, non-ASCII id with the caller's key
\* equal to the pre-fetch key, over-long id, over-long key URI
Callers ==
    { <<(<<49, 50>>), (<<115, 107, 100, 58, 47, 47, 107>>)>>,
      <<(<<233>>), PREFETCH_KEY>>,
      <<Repeat(MaxUByte + 1, 49), (<<115, 107, 100, 58, 47, 47, 107>>)>>,
      <<(<<49, 50>>), Repeat(MaxUByte + 1, 107)>> }

\* the peer's plaintext for one ciphertext byte
PeerPlain(b) == (b + 85) % 256

-----------------------------------------------------------------------------
(* decrypt_samples *)

\* keys = [PREFETCH_KEY, fairplay_key]
keys == <<PREFETCH_KEY, fairplay_key>>

\* key_uri = keys[min(sample.desc_index, len(keys) - 1)]   (0-based list)
KeyUri(desc_index) == keys[Min(desc_index, Len(keys) - 1) + 1]

\* id_bytes = b"0" if key_uri == PREFETCH_KEY else track_id.encode("utf-8")
IdBytes(key_uri) ==
    IF key_uri = PREFETCH_KEY THEN <<48>> ELSE Utf8Encode(track_id)

\* if last_desc_index != 255: send the key switch signal
NeedSwitch(last) == last # NoKeySentinel

HasCiphertextM(truncated_len) == truncated_len >= 0

\* if truncated_len > 0: send the ciphertext frame
HasCiphertext(truncated_len) == truncated_len > 0

ShortReadM(got, expected) == got > expected

\* if len(decrypted_sample) != truncated_len: raise IOError
ShortRead(got, expected) == got # expected

TerminatorM == <<0, 0, 0, 0>>

\* bytes([0, 0, 0, 0, 0])
Terminator == <<0, 0, 0, 0, 0>>

\* what sock_reader.read(n) can deliver: n bytes, or fewer when the peer
\* closes early
ReplyLens(n) == {0, n - 1, n} \cap (0..n)

InitDecrypt ==
    /\ samples \in SeqsUpTo(SampleInfos, MaxSamples)
    /\ \E c \in Callers : track_id = c[1] /\ fairplay_key = c[2]
    /\ pc = "connect"
    /\ i = 1
    /\ last_desc_index = NoKeySentinel
    /\ decrypted_data = <<>>
    /\ wbuf = <<>>
    /\ wire = <<>>
    /\ rx = <<>>
    /\ sock = "created"
    /\ exc = "none"
    /\ result = [ok |-> FALSE, data |-> <<>>]
    /\ temp_file = "absent"
    /\ output_file = "absent"
    \* extract_song has returned; its working state is not used here
    /\ epc = "done"
    /\ raw_data = <<>>
    /\ offset = 0
    /\ boxes = <<>>
    /\ bi = 1
    /\ moof_box = None
    /\ song_samples = samples
    /\ ftyp_data = <<>>
    /\ moov_data = <<>>
    /\ call = None
    /\ ret = None
    /\ outf = None
    /\ mux = None
    /\ other = None

\* position of the loop after sample k has been dealt with
LoopAt(k) == IF k > Len(samples) THEN "close" ELSE "key"

\* sock.connect((host, port)) succeeds; the try block is entered
Connect ==
    /\ pc = "connect"
    /\ sock' = "connected"
    /\ pc' = LoopAt(1)
    /\ UNCHANGED <<evars, fvars, samples, track_id, fairplay_key, i, last_desc_index,
                   decrypted_data, wbuf, wire, rx, exc, result,
                   temp_file, output_file>>

\* sock.connect raises: it is outside the try block, nothing is closed
ConnectFail ==
    /\ pc = "connect"
    /\ exc' = "ConnectionError"
    /\ pc' = "raised"
    /\ UNCHANGED <<evars, fvars, samples, track_id, fairplay_key, i, last_desc_index,
                   decrypted_data, wbuf, wire, rx, sock, result,
                   temp_file, output_file>>

\* lines 333-354: key switch and key registration for samples[i]
CheckKey ==
    /\ pc = "key"
    /\ LET sample == samples[i]
           switch == IF NeedSwitch(last_desc_index)
                     THEN <<W("switch", PackLE32(0))>> ELSE <<>>
           key_uri == KeyUri(sample.desc_index)
           id_bytes == IdBytes(key_uri)
           key_bytes == Utf8Encode(key_uri)
       IN IF last_desc_index = sample.desc_index
          THEN /\ pc' = "send"
               /\ UNCHANGED <<wire, wbuf, last_desc_index, exc>>
          ELSE IF Len(id_bytes) > MaxUByte
          THEN \* struct.pack("B", len(id_bytes)) raises
               /\ wire' = wire \o switch
               /\ exc' = "struct.error"
               /\ pc' = "finally"
               /\ UNCHANGED <<wbuf, last_desc_index>>
          ELSE IF Len(key_bytes) > MaxUByte
          THEN \* struct.pack("B", len(key_bytes)) raises, id part is buffered
               /\ wire' = wire \o switch
               /\ wbuf' = wbuf \o <<W("idlen", <<Len(id_bytes)>>), W("id", id_bytes)>>
               /\ exc' = "struct.error"
               /\ pc' = "finally"
               /\ UNCHANGED last_desc_index
          ELSE /\ wire' = wire \o switch \o
                          <<W("idlen", <<Len(id_bytes)>>), W("id", id_bytes),
                            W("keylen", <<Len(key_bytes)>>), W("key", key_bytes)>>
               /\ last_desc_index' = sample.desc_index
               /\ pc' = "send"
               /\ UNCHANGED <<wbuf, exc>>
    /\ UNCHANGED <<evars, fvars, samples, track_id, fairplay_key, i, decrypted_data, rx,
                   sock, result, temp_file, output_file>>

\* lines 357-364: the ciphertext frame of samples[i]
SendCipher ==
    /\ pc = "send"
    /\ LET data == samples[i].data
           truncated_len == TruncatedLen(Len(data))
       IN IF HasCiphertext(truncated_len)
          THEN /\ wire' = wire \o <<W("clen", PackLE32(truncated_len)),
                                    W("cdata", SubSeq(data, 1, truncated_len))>>
               /\ pc' = "recv"
          ELSE /\ pc' = "clear"
               /\ UNCHANGED wire
    /\ UNCHANGED <<evars, fvars, samples, track_id, fairplay_key, i, last_desc_index,
                   decrypted_data, wbuf, rx, sock, exc, result,
                   temp_file, output_file>>

\* lines 367-370: read the plaintext reply, raise on a short read
RecvPlain ==
    /\ pc = "recv"
    /\ LET data == samples[i].data
           truncated_len == TruncatedLen(Len(data))
       IN \E got \in ReplyLens(truncated_len) :
            LET decrypted_sample == [k \in 1..got |-> PeerPlain(data[k])]
            IN /\ rx' = rx \o decrypted_sample
               /\ IF ShortRead(got, truncated_len)
                  THEN /\ exc' = "IOError"
                       /\ pc' = "finally"
                       /\ UNCHANGED decrypted_data
                  ELSE /\ decrypted_data' = decrypted_data \o decrypted_sample
                       /\ pc' = "clear"
                       /\ UNCHANGED exc
    /\ UNCHANGED <<evars, fvars, samples, track_id, fairplay_key, i, last_desc_index,
                   wbuf, wire, sock, result, temp_file, output_file>>

\* lines 373-374: append the clear tail, go to the next sample
AppendClear ==
    /\ pc = "clear"
    /\ LET data == samples[i].data
           sample_len == Len(data)
           truncated_len == TruncatedLen(sample_len)
       IN decrypted_data' =
            IF truncated_len < sample_len
            THEN decrypted_data \o SubSeq(data, truncated_len + 1, sample_len)
            ELSE decrypted_data
    /\ i' = i + 1
    /\ pc' = LoopAt(i + 1)
    /\ UNCHANGED <<evars, fvars, samples, track_id, fairplay_key, last_desc_index,
                   wbuf, wire, rx, sock, exc, result, temp_file, output_file>>

\* lines 377-381: close signal, return bytes(decrypted_data)
CloseSignal ==
    /\ pc = "close"
    /\ wire' = wire \o <<W("term", Terminator)>>
    /\ result' = [ok |-> TRUE, data |-> decrypted_data]
    /\ pc' = "finally"
    /\ UNCHANGED <<evars, fvars, samples, track_id, fairplay_key, i, last_desc_index,
                   decrypted_data, wbuf, rx, sock, exc, temp_file, output_file>>

\* lines 383-386: sock_writer.close() flushes what is buffered, sock.close()
Finally ==
    /\ pc = "finally"
    /\ wire' = wire \o wbuf
    /\ wbuf' = <<>>
    /\ sock' = "closed"
    /\ pc' = IF exc = "none" THEN "returned" ELSE "raised"
    /\ UNCHANGED <<evars, fvars, samples, track_id, fairplay_key, i, last_desc_index,
                   decrypted_data, rx, exc, result, temp_file, output_file>>


-----------------------------------------------------------------------------
(* Reading the connection *)

At(tag) == {k \in 1..Len(wire) : wire[k].tag = tag}

IsTag(k, tag) == k \in 1..Len(wire) /\ wire[k].tag = tag

\* value of a 4-byte little-endian field
LE32Value(b) == b[1] + 256 * b[2] + 65536 * b[3] + 16777216 * b[4]

\* the 16-byte-aligned prefix length, stated arithmetically
PrefixLen(L) == L - (L % 16)

CipherOf(s) == SubSeq(s.data, 1, PrefixLen(Len(s.data)))

ClearOf(s) == SubSeq(s.data, PrefixLen(Len(s.data)) + 1, Len(s.data))

PlainOf(s) == [k \in 1..PrefixLen(Len(s.data)) |-> PeerPlain(s.data[k])]

\* samples 1..n that have a non-empty encrypted prefix
WithCipher(n) == {j \in 1..Min(n, Len(samples)) : PrefixLen(Len(samples[j].data)) > 0}

\* total length of samples 1..n
RECURSIVE LenBefore(_)
LenBefore(n) == IF n = 0 THEN 0 ELSE LenBefore(n - 1) + Len(samples[n].data)

\* total number of ciphertext bytes on the connection
RECURSIVE CipherBytes(_)
CipherBytes(k) ==
    IF k = 0 THEN 0
    ELSE CipherBytes(k - 1) + (IF wire[k].tag = "cdata" THEN Len(wire[k].bytes) ELSE 0)

ReturnedNormally == result.ok /\ pc \in {"returned", "normalize", "done", "failed"}

\* the key a description index selects: 0 the pre-fetch key, >= 1 the caller's
SelectedKey(desc_index) == IF desc_index = 0 THEN PREFETCH_KEY ELSE fairplay_key

-----------------------------------------------------------------------------
(* C1 (as claimed): for a non-empty sample list the first thing written on *)
(* the connection starts a key registration, and no switch frame precedes  *)
(* the first registration.                                                 *)
C1_FirstWriteRegisters ==
    (Len(samples) > 0 /\ wire # <<>>) =>
        /\ wire[1].tag = "idlen"
        /\ \A k \in At("switch") : \E j \in At("key") : j < k

(* C2 (as claimed): on a completed session a registration is written       *)
(* exactly for the first sample and for each sample whose description      *)
(* index differs from its predecessor's; each registration but the first   *)
(* is immediately preceded by exactly one zero-length frame; no other      *)
(* zero-length frame exists; switches = registrations - 1.                 *)
C2_RegistrationsAndSwitches ==
    (ReturnedNormally /\ Len(samples) > 0) =>
        LET regs == At("idlen")
            expected == {j \in 1..Len(samples) :
                           j = 1 \/ samples[j].desc_index # samples[j - 1].desc_index}
            first == CHOOSE k \in regs : \A m \in regs : k <= m
        IN /\ Cardinality(regs) = Cardinality(expected)
           /\ \A k \in regs \ {first} :
                IsTag(k - 1, "switch") /\ ~IsTag(k - 2, "switch")
           /\ ~IsTag(first - 1, "switch")
           /\ \A k \in At("switch") : IsTag(k + 1, "idlen")
           /\ \A k \in At("clen") : wire[k].bytes # <<0, 0, 0, 0>>
           /\ Cardinality(At("switch")) = Cardinality(regs) - 1

(* C3 (as claimed): when the ciphertext frame of a sample has been         *)
(* written, a key has been registered and the most recently registered     *)
(* key is the one the sample's description index selects.                  *)
C3_CipherUnderSelectedKey ==
    pc = "recv" =>
        /\ At("key") # {}
        /\ LET last == CHOOSE k \in At("key") : \A m \in At("key") : m <= k
           IN wire[last].bytes = Utf8Encode(SelectedKey(samples[i].desc_index))

(* C4: on a normal return the ciphertext frames carry, per sample, exactly *)
(* the first L - (L mod 16) bytes behind that value as a 4-byte            *)
(* little-endian length; the returned buffer is, per sample, the peer's    *)
(* plaintext followed by the untouched L mod 16 trailing bytes, so its     *)
(* length is the sum of the sample lengths and sample j's segment starts   *)
(* at the sum of the lengths before it.                                    *)
C4_PrefixAndClearTail ==
    /\ \A k \in At("cdata") :
         /\ IsTag(k - 1, "clen")
         /\ Len(wire[k - 1].bytes) = 4
         /\ LE32Value(wire[k - 1].bytes) = Len(wire[k].bytes)
         /\ \A b \in 1..4 : wire[k - 1].bytes[b] \in 0..255
    /\ \A k \in At("clen") : IsTag(k + 1, "cdata")
    /\ ReturnedNormally =>
         /\ Len(result.data) = LenBefore(Len(samples))
         /\ \A j \in 1..Len(samples) :
              SubSeq(result.data, LenBefore(j - 1) + 1, LenBefore(j))
                  = PlainOf(samples[j]) \o ClearOf(samples[j])
         /\ Cardinality(At("cdata")) = Cardinality(WithCipher(Len(samples)))
         /\ \A j \in WithCipher(Len(samples)) :
              \E k \in At("cdata") :
                 /\ Cardinality({m \in At("cdata") : m <= k})
                      = Cardinality(WithCipher(j))
                 /\ wire[k].bytes = CipherOf(samples[j])

C4_Witness ==
    /\ pc = "returned"
    /\ Len(samples) >= 2
    /\ Len(samples[1].data) % 16 # 0
    /\ Len(samples[1].data) > 16
    /\ Len(samples[2].data) % 16 = 0

\* a step taken while samples[i], whose encrypted prefix is empty, is processed
ShortSampleStep ==
    /\ pc \in {"key", "send", "clear"}
    /\ PrefixLen(Len(samples[i].data)) = 0

NoCipherWritten ==
    \A k \in (Len(wire) + 1)..Len(wire') : wire'[k].tag \notin {"clen", "cdata"}

C6_TerminatorLast ==
    /\ ReturnedNormally =>
         /\ Cardinality(At("term")) = 1
         /\ wire[Len(wire)] = W("term", <<0, 0, 0, 0, 0>>)
    /\ At("term") # {} =>
         /\ At("term") = {Len(wire)}
         /\ result.ok
         /\ exc \in {"none", "OSError"}
         /\ Len(rx) = CipherBytes(Len(wire))

C6_Witness ==
    /\ pc = "returned"
    /\ Len(samples) >= 2
    /\ Cardinality(At("cdata")) >= 2
    /\ IsTag(Len(wire), "term")

(* C7: a reply shorter than the ciphertext frame makes decrypt_samples     *)
(* raise: nothing is returned, the failing frame stays the last thing      *)
(* written (no further frame, no terminator, no second attempt), and       *)
(* neither the temporary nor the output file is written.                   *)
C7_ShortReadIsFatal ==
    /\ (pc # "recv" /\ Len(rx) # CipherBytes(Len(wire))) => exc = "IOError"
    /\ exc = "IOError" =>
         /\ pc \in {"finally", "raised"}
         /\ ~result.ok /\ result.data = <<>>
         /\ At("term") = {}
         /\ IsTag(Len(wire), "cdata")
         /\ wire[Len(wire)].bytes = CipherOf(samples[i])
         /\ Cardinality(At("cdata")) = Cardinality(WithCipher(i))
         /\ temp_file = "absent" /\ output_file = "absent"

C7_Witness ==
    /\ pc = "raised"
    /\ exc = "IOError"
    /\ i >= 2
    /\ decrypted_data # <<>>
    /\ rx # <<>> /\ Len(rx) < CipherBytes(Len(wire))

(* C8 (as claimed): every key registration on the connection is            *)
(* [1 byte id length][id][1 byte URI length][URI], with id "0" for the     *)
(* pre-fetch key and the caller's track identifier otherwise, each length  *)
(* byte equal to the number of bytes that follow it.                       *)
C8_RegistrationFraming ==
    \A k \in At("idlen") :
        /\ IsTag(k + 1, "id") /\ IsTag(k + 2, "keylen") /\ IsTag(k + 3, "key")
        /\ wire[k].bytes = <<Len(wire[k + 1].bytes)>>
        /\ wire[k + 2].bytes = <<Len(wire[k + 3].bytes)>>
        /\ Len(wire[k + 1].bytes) <= 255 /\ Len(wire[k + 3].bytes) <= 255
        /\ wire[k + 1].bytes =
             IF wire[k + 3].bytes = Utf8Encode(PREFETCH_KEY)
             THEN <<48>> ELSE Utf8Encode(track_id)

-----------------------------------------------------------------------------
(* Bytes of the container *)

\* data[a:b] with Python's clamping, a and b 0-based
Slice(data, a, b) ==
    IF a >= Min(b, Len(data)) THEN <<>> ELSE SubSeq(data, a + 1, Min(b, Len(data)))

\* struct.unpack(">I", data[off:off+4])[0]
U32At(data, off) ==
    16777216 * data[off + 1] + 65536 * data[off + 2] + 256 * data[off + 3] + data[off + 4]

\* struct.unpack(">Q", data[off:off+8])[0]
\* (values of 2^31 and more are beyond TLC's integers and beyond every
\* file of the model: all of them are read as 2^31 - 1)
U64At(data, off) ==
    IF U32At(data, off) = 0 /\ data[off + 5] < 128
    THEN U32At(data, off + 4) ELSE 2147483647

\* struct.unpack(">I", b'\x00' + data[1:4])[0]
Flags24(data) == 65536 * data[2] + 256 * data[3] + data[4]

\* flags & mask for a one-bit mask
HasFlag(flags, mask) == (flags \div mask) % 2 = 1

\* the four type bytes, as data[off+4:off+8].decode("ascii") compares them
TypeAt(data, off) == SubSeq(data, off + 5, off + 8)

T_ftyp == <<102, 116, 121, 112>>
T_moov == <<109, 111, 111, 118>>
T_moof == <<109, 111, 111, 102>>
T_mdat == <<109, 100, 97, 116>>
T_traf == <<116, 114, 97, 102>>
T_tfhd == <<116, 102, 104, 100>>
T_trun == <<116, 114, 117, 110>>

-----------------------------------------------------------------------------
(* _parse_tfhd, _parse_trun, _parse_moof_mdat *)

\* a _parse_tfhd that takes no account of the base data offset
ParseTfhdM(data, tfhd_info) ==
    IF Len(data) < 8 THEN tfhd_info
    ELSE LET flags == Flags24(data)
             o1 == 8
             rd == HasFlag(flags, 2) /\ o1 + 4 <= Len(data)
             o2 == IF rd THEN o1 + 4 ELSE o1
             rt == HasFlag(flags, 8) /\ o2 + 4 <= Len(data)
             o3 == IF rt THEN o2 + 4 ELSE o2
             rs == HasFlag(flags, 16) /\ o3 + 4 <= Len(data)
         IN [flags |-> flags,
             desc_index |-> IF rd THEN U32At(data, o1) ELSE tfhd_info.desc_index,
             default_duration |-> IF rt THEN U32At(data, o2) ELSE tfhd_info.default_duration,
             default_size |-> IF rs THEN U32At(data, o3) ELSE tfhd_info.default_size]

\* _parse_tfhd(data, tfhd_info): the updated tfhd_info
ParseTfhd(data, tfhd_info) ==
    IF Len(data) < 8 THEN tfhd_info
    ELSE LET flags == Flags24(data)
             o0 == 8
             o1 == IF HasFlag(flags, 1) /\ o0 + 8 <= Len(data) THEN o0 + 8 ELSE o0
             rd == HasFlag(flags, 2) /\ o1 + 4 <= Len(data)
             o2 == IF rd THEN o1 + 4 ELSE o1
             rt == HasFlag(flags, 8) /\ o2 + 4 <= Len(data)
             o3 == IF rt THEN o2 + 4 ELSE o2
             rs == HasFlag(flags, 16) /\ o3 + 4 <= Len(data)
         IN [flags |-> flags,
             desc_index |-> IF rd THEN U32At(data, o1) ELSE tfhd_info.desc_index,
             default_duration |-> IF rt THEN U32At(data, o2) ELSE tfhd_info.default_duration,
             default_size |-> IF rs THEN U32At(data, o3) ELSE tfhd_info.default_size]

\* a dict with the given optional keys
EmptyDict == [k \in {} |-> 0]

DictSet(d, key, val) == [k \in DOMAIN d \cup {key} |-> IF k = key THEN val ELSE d[k]]

\* a lookup that ignores what the entry carries
DictGetM(d, key, default) == default

\* entry.get(key, default)
DictGet(d, key, default) == IF key \in DOMAIN d THEN d[key] ELSE default

\* the for loop of _parse_trun: `left` entries still to read from `off`
RECURSIVE TrunEntries(_, _, _, _)
TrunEntries(data, flags, off, left) ==
    IF left = 0 THEN <<>>
    ELSE LET rdur == HasFlag(flags, 256) /\ off + 4 <= Len(data)
             o1 == IF rdur THEN off + 4 ELSE off
             e1 == IF rdur THEN DictSet(EmptyDict, "duration", U32At(data, off))
                   ELSE EmptyDict
             rsz == HasFlag(flags, 512) /\ o1 + 4 <= Len(data)
             o2 == IF rsz THEN o1 + 4 ELSE o1
             e2 == IF rsz THEN DictSet(e1, "size", U32At(data, o1)) ELSE e1
             o3 == IF HasFlag(flags, 1024) THEN o2 + 4 ELSE o2
             o4 == IF HasFlag(flags, 2048) THEN o3 + 4 ELSE o3
         IN <<e2>> \o TrunEntries(data, flags, o4, left - 1)

\* a _parse_trun that takes no account of the first sample flags
ParseTrunM(data) ==
    IF Len(data) < 8 THEN <<>>
    ELSE LET flags == Flags24(data)
             sample_count == U32At(data, 4)
             o0 == 8
             o1 == IF HasFlag(flags, 1) THEN o0 + 4 ELSE o0
         IN TrunEntries(data, flags, o1, sample_count)

\* _parse_trun(data, tfhd_info)
ParseTrun(data) ==
    IF Len(data) < 8 THEN <<>>
    ELSE LET flags == Flags24(data)
             sample_count == U32At(data, 4)
             o0 == 8
             o1 == IF HasFlag(flags, 1) THEN o0 + 4 ELSE o0
             o2 == IF HasFlag(flags, 4) THEN o1 + 4 ELSE o1
         IN TrunEntries(data, flags, o2, sample_count)

\* lines 194-206: the walk inside one traf; st = [tfhd_info, trun_entries]
RECURSIVE TrafWalk(_, _, _, _)
TrafWalk(moof_data, traf_offset, traf_end, st) ==
    IF ~(traf_offset < traf_end - 8) THEN st
    ELSE LET inner_size == U32At(moof_data, traf_offset)
             inner_type == TypeAt(moof_data, traf_offset)
             body == Slice(moof_data, traf_offset + 8, traf_offset + inner_size)
         IN IF inner_size = 0 THEN st
            ELSE TrafWalk(moof_data, traf_offset + inner_size, traf_end,
                   IF inner_type = T_tfhd
                   THEN [st EXCEPT !.tfhd_info = ParseTfhd(body, st.tfhd_info)]
                   ELSE IF inner_type = T_trun
                   THEN [st EXCEPT !.trun_entries = ParseTrun(body)]
                   ELSE st)

\* lines 182-208: the walk over the children of the moof
RECURSIVE MoofWalk(_, _, _)
MoofWalk(moof_data, off, st) ==
    IF ~(off < Len(moof_data) - 8) THEN st
    ELSE LET size == U32At(moof_data, off)
             box_type == TypeAt(moof_data, off)
         IN IF size = 0 \/ off + size > Len(moof_data) THEN st
            ELSE MoofWalk(moof_data, off + size,
                   IF box_type = T_traf
                   THEN TrafWalk(moof_data, off + 8, off + size, st)
                   ELSE st)

\* lines 176-179 and the walk: what the moof says
MoofInfo(moof_data, default_sample_duration, default_sample_size) ==
    MoofWalk(moof_data, 8,
             [tfhd_info |-> [desc_index |-> 0,
                             default_duration |-> default_sample_duration,
                             default_size |-> default_sample_size,
                             flags |-> 0],
              trun_entries |-> <<>>])

\* the index kept as the file counts it, from 1
ZeroBasedM(desc_index) == desc_index

\* desc_index = tfhd_info["desc_index"]; if desc_index > 0: desc_index -= 1
ZeroBased(desc_index) == IF desc_index > 0 THEN desc_index - 1 ELSE desc_index

\* an offset that stays where it is after a sample
AdvanceM(mdat_offset, sample_size) == mdat_offset

\* mdat_offset += sample_size
Advance(mdat_offset, sample_size) == mdat_offset + sample_size

\* lines 216-227: slice mdat_data by the run entries
RECURSIVE SliceSamples(_, _, _, _)
SliceSamples(entries, tfhd_info, mdat_data, mdat_offset) ==
    IF entries = <<>> THEN <<>>
    ELSE LET entry == Head(entries)
             sample_size == DictGet(entry, "size", tfhd_info.default_size)
             sample_duration == DictGet(entry, "duration", tfhd_info.default_duration)
         IN IF sample_size > 0 /\ mdat_offset + sample_size <= Len(mdat_data)
            THEN <<SampleInfo(Slice(mdat_data, mdat_offset, mdat_offset + sample_size),
                              sample_duration,
                              ZeroBased(tfhd_info.desc_index))>>
                 \o SliceSamples(Tail(entries), tfhd_info, mdat_data,
                                 Advance(mdat_offset, sample_size))
            ELSE SliceSamples(Tail(entries), tfhd_info, mdat_data, mdat_offset)

\* _parse_moof_mdat(moof_data, mdat_data, default_sample_duration, default_sample_size)
ParseMoofMdat(moof_data, mdat_data, default_sample_duration, default_sample_size) ==
    LET st == MoofInfo(moof_data, default_sample_duration, default_sample_size)
    IN SliceSamples(st.trun_entries, st.tfhd_info, mdat_data, 0)

-----------------------------------------------------------------------------
(* Input files of extract_song *)

U24BE(n) == <<(n \div 65536) % 256, (n \div 256) % 256, n % 256>>

U32BE(n) == <<(n \div 16777216) % 256>> \o U24BE(n % 16777216)

\* n < 2^32
U64BE(n) == U32BE(0) \o U32BE(n)

\* a box with the standard 8-byte header
Box(type, payload) == U32BE(8 + Len(payload)) \o type \o payload

\* a box with size field 1 and the 64-bit extended size
ExtBox(type, payload) == U32BE(1) \o type \o U64BE(16 + Len(payload)) \o payload

\* FullBox payloads: version 0, 24-bit flags
TfhdBox(flags, fields) == Box(T_tfhd, <<0>> \o U24BE(flags) \o U32BE(1) \o fields)

TrunBox(flags, sample_count, fields) ==
    Box(T_trun, <<0>> \o U24BE(flags) \o U32BE(sample_count) \o fields)

MfhdBox == Box(<<109, 102, 104, 100>>, <<0, 0, 0, 0>> \o U32BE(1))

MoofBox(tfhd, trun) == Box(T_moof, MfhdBox \o Box(T_traf, tfhd \o trun))

\* description index 1, run sizes 4, 3
MoofA == MoofBox(TfhdBox(2, U32BE(1)),
                 TrunBox(512, 2, U32BE(4) \o U32BE(3)))

\* description index 2, default duration 512, run sizes 4, 0, 3
MoofB == MoofBox(TfhdBox(10, U32BE(2) \o U32BE(512)),
                 TrunBox(512, 3, U32BE(4) \o U32BE(0) \o U32BE(3)))

\* no tfhd fields, run (duration, size) = (2048, 4), (2048, 20), (2048, 3)
MoofC == MoofBox(TfhdBox(0, <<>>),
                 TrunBox(768, 3, U32BE(2048) \o U32BE(4) \o U32BE(2048) \o U32BE(20)
                                 \o U32BE(2048) \o U32BE(3)))

MdatS == Box(T_mdat, Bytes(8, 16))

MdatX == ExtBox(T_mdat, Bytes(5, 200))

\* a box whose 32-bit size field is 0
ZeroBox == U32BE(0) \o <<102, 114, 101, 101>> \o Bytes(4, 1)

FragmentBoxes == {MoofA, MoofB, MoofC, MdatS, MdatX, ZeroBox}

\* what precedes the fragments: nothing, or ftyp and moov
FtypMoov ==
    Box(T_ftyp, <<77, 52, 65, 32>>)
    \o Box(T_moov, Box(<<109, 118, 104, 100>>, <<0, 0, 0, 0>>))

Files ==
    {pre \o Flatten(fr) : pre \in {<<>>, FtypMoov},
                          fr \in SeqsUpTo(FragmentBoxes, MaxBoxes)}

-----------------------------------------------------------------------------
(* extract_song *)

\* default_sample_duration = 1024
DefaultSampleDuration == 1024

\* default_sample_size = 0
DefaultSampleSize == 0

\* data of the last collected box of the given type, b"" if there is none
RECURSIVE LastDataOf(_, _)
LastDataOf(bs, type) ==
    IF bs = <<>> THEN <<>>
    ELSE IF bs[Len(bs)].type = type THEN bs[Len(bs)].data
    ELSE LastDataOf(SubSeq(bs, 1, Len(bs) - 1), type)

PendingAfterPairM(box) == box

\* moof_box = None after a pair has been parsed
PendingAfterPair(box) == None

InitExtract ==
    /\ raw_data \in Files
    /\ epc = "collect"
    /\ offset = 0
    /\ boxes = <<>>
    /\ bi = 1
    /\ moof_box = None
    /\ song_samples = <<>>
    /\ ftyp_data = <<>>
    /\ moov_data = <<>>
    /\ call = None
    /\ ret = None
    /\ outf = None
    /\ mux = None
    /\ other = None
    \* decrypt_file has not reached decrypt_samples
    /\ samples = <<>>
    /\ track_id = <<>>
    /\ fairplay_key = <<>>
    /\ pc = "extract"
    /\ i = 1
    /\ last_desc_index = NoKeySentinel
    /\ decrypted_data = <<>>
    /\ wbuf = <<>>
    /\ wire = <<>>
    /\ rx = <<>>
    /\ sock = "none"
    /\ exc = "none"
    /\ result = [ok |-> FALSE, data |-> <<>>]
    /\ temp_file = "absent"
    /\ output_file = "absent"

\* lines 139-143 once the first pass has ended with the boxes bs
EndFirstPass(bs) ==
    /\ boxes' = bs
    /\ ftyp_data' = LastDataOf(bs, T_ftyp)
    /\ moov_data' = LastDataOf(bs, T_moov)
    /\ epc' = IF bs = <<>> THEN "done" ELSE "pairs"
    /\ UNCHANGED offset

\* a scan that walks over a size field of 0
EndsScanM(size) == FALSE

\* if size == 0: break
EndsScan(size) == size = 0

\* lines 113-134: one iteration of the first pass
CollectBox ==
    /\ epc = "collect"
    /\ IF ~(offset < Len(raw_data) - 8) THEN EndFirstPass(boxes)
       ELSE LET size32 == U32At(raw_data, offset)
                box_type == TypeAt(raw_data, offset)
            IN IF EndsScan(size32) THEN EndFirstPass(boxes)
               ELSE IF size32 = 1 /\ offset + 16 > Len(raw_data) THEN EndFirstPass(boxes)
               ELSE LET size == IF size32 = 1 THEN U64At(raw_data, offset + 8) ELSE size32
                        header_size == IF size32 = 1 THEN 16 ELSE 8
                    IN /\ boxes' = Append(boxes,
                             [offset |-> offset, size |-> size, type |-> box_type,
                              header_size |-> header_size,
                              data |-> Slice(raw_data, offset, offset + size)])
                       /\ offset' = offset + size
                       /\ UNCHANGED <<epc, ftyp_data, moov_data>>
    /\ UNCHANGED <<dvars, fvars, raw_data, bi, moof_box, song_samples>>

\* lines 151-165: one iteration of the second pass
PairStep ==
    /\ epc = "pairs"
    /\ LET box == boxes[bi]
       IN IF box.type = T_moof
          THEN /\ moof_box' = box
               /\ UNCHANGED song_samples
          ELSE IF box.type = T_mdat /\ moof_box # None
          THEN LET moof_data == moof_box.data
                   mdat_data == Slice(box.data, box.header_size, Len(box.data))
               IN /\ song_samples' = song_samples \o
                        ParseMoofMdat(moof_data, mdat_data,
                                      DefaultSampleDuration, DefaultSampleSize)
                  /\ moof_box' = PendingAfterPair(moof_box)
          ELSE UNCHANGED <<moof_box, song_samples>>
    /\ bi' = bi + 1
    /\ epc' = IF bi + 1 > Len(boxes) THEN "done" ELSE "pairs"
    /\ UNCHANGED <<dvars, fvars, raw_data, offset, boxes, ftyp_data, moov_data>>

NextExtract ==
    \/ CollectBox
    \/ PairStep

SpecExtract == InitExtract /\ [][NextExtract]_vars

-----------------------------------------------------------------------------
(* Reading the box list *)

\* the bytes of box k after its header
PayloadOf(k) == SubSeq(boxes[k].data, boxes[k].header_size + 1, Len(boxes[k].data))

\* the fragment header pending once boxes 1..n have been scanned: the last
\* moof with no mdat after it, 0 if there is none
PendingAt(n) ==
    LET cand == {j \in 1..n : /\ boxes[j].type = T_moof
                              /\ \A m \in (j + 1)..n : boxes[m].type # T_mdat}
    IN IF cand = {} THEN 0 ELSE CHOOSE j \in cand : \A m \in cand : m <= j

\* box k is a data box with a fragment header since the previous data box
Paired(k) == boxes[k].type = T_mdat /\ PendingAt(k - 1) # 0

(* C9: a data box contributes samples only if a fragment header appeared   *)
(* since the previous data box; it is parsed with the most recent one;     *)
(* the pending header is cleared after use; the samples of successive      *)
(* pairs are appended in file order.                                       *)
C9_PairsInFileOrder ==
    epc \in {"pairs", "done"} =>
        /\ song_samples =
             Flatten([k \in 1..(bi - 1) |->
                        IF Paired(k)
                        THEN ParseMoofMdat(boxes[PendingAt(k - 1)].data, PayloadOf(k),
                                           1024, 0)
                        ELSE <<>>])
        /\ moof_box = IF PendingAt(bi - 1) = 0 THEN None ELSE boxes[PendingAt(bi - 1)]

C9_Witness ==
    /\ epc = "done"
    /\ \E k \in 1..Len(boxes) : boxes[k].type = T_mdat /\ ~Paired(k)
    /\ \E k \in 3..Len(boxes) : Paired(k) /\ boxes[k - 2].type = T_moof
    /\ Len(song_samples) >= 2

\* slicing that stops at the first entry whose size is zero or does not fit
RECURSIVE SliceUntilBad(_, _, _, _)
SliceUntilBad(entries, tfhd_info, mdat_data, mdat_offset) ==
    IF entries = <<>> THEN <<>>
    ELSE LET sample_size == DictGet(Head(entries), "size", tfhd_info.default_size)
         IN IF sample_size = 0 \/ mdat_offset + sample_size > Len(mdat_data)
            THEN <<>>
            ELSE <<SubSeq(mdat_data, mdat_offset + 1, mdat_offset + sample_size)>>
                 \o SliceUntilBad(Tail(entries), tfhd_info, mdat_data,
                                  mdat_offset + sample_size)

(* C10 (as claimed): the first run entry whose resolved size is zero or    *)
(* runs past the end of the payload ends the extraction for its fragment:  *)
(* no sample comes from that entry or from any later entry of the run.     *)
C10_BadEntryEndsFragment ==
    epc \in {"pairs", "done"} =>
        [k \in 1..Len(song_samples) |-> song_samples[k].data] =
            Flatten([k \in 1..(bi - 1) |->
                       IF Paired(k)
                       THEN LET st == MoofInfo(boxes[PendingAt(k - 1)].data, 1024, 0)
                            IN SliceUntilBad(st.trun_entries, st.tfhd_info,
                                             PayloadOf(k), 0)
                       ELSE <<>>])

-----------------------------------------------------------------------------
(* Single calls of the parsing functions *)

\* neither extract_song nor decrypt_samples is running
NoPipeline ==
    /\ samples = <<>>
    /\ track_id = <<>>
    /\ fairplay_key = <<>>
    /\ pc = "extract"
    /\ i = 1
    /\ last_desc_index = NoKeySentinel
    /\ decrypted_data = <<>>
    /\ wbuf = <<>>
    /\ wire = <<>>
    /\ rx = <<>>
    /\ sock = "none"
    /\ exc = "none"
    /\ result = [ok |-> FALSE, data |-> <<>>]
    /\ temp_file = "absent"
    /\ output_file = "absent"
    /\ epc = "done"
    /\ raw_data = <<>>
    /\ offset = 0
    /\ boxes = <<>>
    /\ bi = 1
    /\ moof_box = None
    /\ song_samples = <<>>
    /\ ftyp_data = <<>>
    /\ moov_data = <<>>
    /\ outf = None
    /\ mux = None
    /\ other = None

\* most entries a track run of the inputs declares
MaxEntries == 2

\* an optional field: <<>> when the box does not carry it, else <<value>>
Absent == <<>>

\* the run entries a packager may write: per-sample duration and size
RunEntries == {[duration |-> 2048, size |-> 3],
               [duration |-> 100, size |-> 0],
               [duration |-> 100, size |-> 5]}

\* One fragment as its packager describes it: the order of tfhd and trun in
\* the traf, the optional tfhd fields (Absent when the flag is clear), whether
\* the run carries per-sample durations and sizes, and the run's entries.
FragmentDescs ==
    [tfhd_first : BOOLEAN,
     desc_index : {Absent, <<0>>, <<2>>},
     default_duration : {Absent, <<512>>},
     default_size : {Absent, <<4>>},
     run_durations : BOOLEAN,
     run_sizes : BOOLEAN,
     entries : SeqsUpTo(RunEntries, MaxEntries)]

Opt(flag, v) == IF v = Absent THEN 0 ELSE flag

OptField(v) == IF v = Absent THEN <<>> ELSE U32BE(v[1])

\* the tfhd of a described fragment (flags 0x02, 0x08, 0x10 as its fields say)
TfhdOf(d) ==
    TfhdBox(Opt(2, d.desc_index) + Opt(8, d.default_duration) + Opt(16, d.default_size),
            OptField(d.desc_index) \o OptField(d.default_duration)
            \o OptField(d.default_size))

\* the trun of a described fragment (flags 0x100, 0x200)
TrunOf(d) ==
    TrunBox((IF d.run_durations THEN 256 ELSE 0) + (IF d.run_sizes THEN 512 ELSE 0),
            Len(d.entries),
            Flatten([k \in 1..Len(d.entries) |->
                       (IF d.run_durations THEN U32BE(d.entries[k].duration) ELSE <<>>)
                       \o (IF d.run_sizes THEN U32BE(d.entries[k].size) ELSE <<>>)]))

\* the moof of a described fragment
MoofOf(d) ==
    Box(T_moof, MfhdBox \o Box(T_traf, IF d.tfhd_first THEN TfhdOf(d) \o TrunOf(d)
                                       ELSE TrunOf(d) \o TfhdOf(d)))

MdatPayloads == {Bytes(8, 16), Bytes(4, 16)}

InitFragment ==
    /\ NoPipeline
    /\ \E d \in FragmentDescs, m \in MdatPayloads :
         call = [fn |-> "_parse_moof_mdat", fragment |-> d,
                 moof_data |-> MoofOf(d), mdat_data |-> m]
    /\ ret = None

\* extract_song's call at lines 157-160
CallParseMoofMdat ==
    /\ call # None
    /\ call.fn = "_parse_moof_mdat"
    /\ ret = None
    /\ ret' = [value |-> ParseMoofMdat(call.moof_data, call.mdat_data,
                                       DefaultSampleDuration, DefaultSampleSize)]
    /\ UNCHANGED <<dvars, evars, call, outf, mux, other>>

NextFragment == CallParseMoofMdat

SpecFragment == InitFragment /\ [][NextFragment]_vars

-----------------------------------------------------------------------------
(* Claims about one fragment *)

\* the size and duration a described fragment gives to a run entry
ResolvedSize(d, e) ==
    IF d.run_sizes THEN e.size
    ELSE IF d.default_size # Absent THEN d.default_size[1] ELSE 0

ResolvedDuration(d, e) ==
    IF d.run_durations THEN e.duration
    ELSE IF d.default_duration # Absent THEN d.default_duration[1] ELSE 1024

\* the entries of a described fragment that become samples, as (size,
\* duration): those of positive size that still fit in the payload
RECURSIVE Extracted(_, _, _, _)
Extracted(d, entries, mdat_len, off) ==
    IF entries = <<>> THEN <<>>
    ELSE LET sz == ResolvedSize(d, Head(entries))
         IN IF sz > 0 /\ off + sz <= mdat_len
            THEN <<[size |-> sz, duration |-> ResolvedDuration(d, Head(entries))]>>
                 \o Extracted(d, Tail(entries), mdat_len, off + sz)
            ELSE Extracted(d, Tail(entries), mdat_len, off)

Returned(fn) == call # None /\ call.fn = fn /\ ret # None

C12_DescriptionIndexZeroBased ==
    Returned("_parse_moof_mdat") =>
        \A k \in 1..Len(ret.value) :
            ret.value[k].desc_index =
                IF call.fragment.desc_index # Absent /\ call.fragment.desc_index[1] > 0
                THEN call.fragment.desc_index[1] - 1
                ELSE 0

\* two samples of a fragment whose tfhd names description 2
C12_Witness ==
    /\ Returned("_parse_moof_mdat")
    /\ call.fragment.desc_index = <<2>>
    /\ Len(ret.value) = 2
    /\ ret.value[1].desc_index = 1 /\ ret.value[2].desc_index = 1

-----------------------------------------------------------------------------
(* Claims about the top-level scan *)

\* the first pass has ended at a header whose 32-bit size field is 0
StoppedAtZeroSize ==
    /\ epc \in {"pairs", "done"}
    /\ offset < Len(raw_data) - 8
    /\ U32At(raw_data, offset) = 0

\* the collected boxes lie back to back from the start of the file up to
\* the scan position, none of them with size 0
BackToBack ==
    /\ \A k \in 1..Len(boxes) :
         /\ boxes[k].offset = IF k = 1 THEN 0
                              ELSE boxes[k - 1].offset + boxes[k - 1].size
         /\ boxes[k].size > 0
         /\ boxes[k].data = Slice(raw_data, boxes[k].offset,
                                  boxes[k].offset + boxes[k].size)
    /\ offset = IF boxes = <<>> THEN 0
                ELSE boxes[Len(boxes)].offset + boxes[Len(boxes)].size

\* C13: the top-level scan stops, without raising, at the first box whose
\* 32-bit size is 0: the boxes before it are all collected, nothing at or
\* after it is, and the ftyp and moov bytes and the samples of the pairs
\* before it are still returned.
C13_ZeroSizeEndsScan ==
    /\ BackToBack
    /\ StoppedAtZeroSize =>
         /\ ftyp_data = LastDataOf(boxes, T_ftyp)
         /\ moov_data = LastDataOf(boxes, T_moov)
         /\ epc = "done" /\ boxes # <<>> =>
              song_samples =
                Flatten([k \in 1..Len(boxes) |->
                           IF Paired(k)
                           THEN ParseMoofMdat(boxes[PendingAt(k - 1)].data,
                                              PayloadOf(k), 1024, 0)
                           ELSE <<>>])

\* a file with ftyp, moov and a pair before a zero-size box and a pair after
\* it: the first pair's samples are returned, the second pair's are not
C13_Witness ==
    /\ StoppedAtZeroSize
    /\ epc = "done"
    /\ Len(boxes) = 4
    /\ ftyp_data # <<>> /\ moov_data # <<>>
    /\ Paired(4) /\ song_samples # <<>>
    /\ offset + Len(ZeroBox) < Len(raw_data)

-----------------------------------------------------------------------------
(* read_box_header and find_box *)

\* bytes.decode("ascii", errors="replace"): a byte above 127 becomes U+FFFD
DecodeAscii(bytes) == [k \in 1..Len(bytes) |-> IF bytes[k] < 128 THEN bytes[k] ELSE 65533]

\* f.seek(target) on a stream over data; a position past the end reads as
\* the end
SeekTo(data, pos, size) == IF size > Len(data) - pos THEN Len(data) ELSE pos + size

\* read_box_header(f) with f at position pos of data: what it returns, or
\* that struct.unpack raised, and where it leaves f
ReadBoxHeader(data, pos) ==
    LET header == Slice(data, pos, pos + 8)
        size == U32At(header, 0)
        box_type == DecodeAscii(Slice(header, 4, 8))
        ext_size == Slice(data, pos + 8, pos + 16)
    IN IF Len(header) < 8
       THEN [kind |-> "value", size |-> 0, box_type |-> <<>>, header_size |-> 0,
             pos |-> Len(data)]
       ELSE IF size = 1
       THEN IF Len(ext_size) < 8
            THEN [kind |-> "raise", size |-> 0, box_type |-> <<>>, header_size |-> 0,
                  pos |-> Len(data)]
            ELSE [kind |-> "value", size |-> U64At(ext_size, 0), box_type |-> box_type,
                  header_size |-> 16, pos |-> pos + 16]
       ELSE IF size = 0
       THEN [kind |-> "value", size |-> Len(data) - (pos + 8) + 8, box_type |-> box_type,
             header_size |-> 8, pos |-> pos + 8]
       ELSE [kind |-> "value", size |-> size, box_type |-> box_type,
             header_size |-> 8, pos |-> pos + 8]

\* the loops of find_box from stream position pos with box_path still to find
RECURSIVE FindBoxFrom(_, _, _)
FindBoxFrom(data, pos, box_path) ==
    IF box_path = <<>>
    THEN [kind |-> "value", value |-> Slice(data, pos, Len(data))]
    ELSE LET h == ReadBoxHeader(data, pos)
         IN IF h.kind = "raise" THEN [kind |-> "raise", value |-> <<>>]
            ELSE IF h.size = 0 THEN [kind |-> "none", value |-> <<>>]
            ELSE IF h.box_type = Head(box_path)
            THEN FindBoxFrom(data, pos + h.header_size, Tail(box_path))
            ELSE FindBoxFrom(data, SeekTo(data, pos, h.size), box_path)

\* find_box(data, box_path)
FindBox(data, box_path) == FindBoxFrom(data, 0, box_path)

\* longest box path of the calls
MaxPath == 2

T_trak == <<116, 114, 97, 107>>
T_mdia == <<109, 100, 105, 97>>
T_free == <<102, 114, 101, 101>>

\* the byte strings searched: nested boxes, with a box after the parent, with
\* an extended size, with a size field of 0, and every prefix of each
BoxTrees ==
    {Box(T_moov, Box(T_trak, <<1, 2>>)) \o Box(T_mdia, <<3>>),
     Box(T_moov, Box(T_free, <<4>>) \o Box(T_trak, Box(T_mdia, <<7>>)))
        \o Box(T_free, <<5, 6>>),
     ExtBox(T_moov, Box(T_trak, <<1>>)),
     U32BE(0) \o T_moov \o Box(T_trak, <<8, 9>>)}

ByteStrings == UNION {{SubSeq(t, 1, n) : n \in 0..Len(t)} : t \in BoxTrees}

BoxPaths == SeqsUpTo({T_moov, T_trak, T_mdia}, MaxPath)

InitBoxes ==
    /\ NoPipeline
    /\ \/ \E data \in ByteStrings : call = [fn |-> "read_box_header", data |-> data]
       \/ \E data \in ByteStrings, box_path \in BoxPaths :
             call = [fn |-> "find_box", data |-> data, box_path |-> box_path]
    /\ ret = None

\* read_box_header(io.BytesIO(data))
CallReadBoxHeader ==
    /\ call # None
    /\ call.fn = "read_box_header"
    /\ ret = None
    /\ LET h == ReadBoxHeader(call.data, 0)
       IN ret' = [kind |-> h.kind,
                  value |-> <<h.size, h.box_type, h.header_size>>]
    /\ UNCHANGED <<dvars, evars, call, outf, mux, other>>

\* find_box(data, box_path)
CallFindBox ==
    /\ call # None
    /\ call.fn = "find_box"
    /\ ret = None
    /\ ret' = FindBox(call.data, call.box_path)
    /\ UNCHANGED <<dvars, evars, call, outf, mux, other>>

NextBoxes ==
    \/ CallReadBoxHeader
    \/ CallFindBox

SpecBoxes == InitBoxes /\ [][NextBoxes]_vars

\* C14: for every byte string read_box_header and find_box return a value
\* and never raise; a truncated header, an extended size cut short included,
\* makes read_box_header return (0, "", 0) and ends the walk.
C14_TruncatedHeaderNeverRaises ==
    /\ (Returned("read_box_header") \/ Returned("find_box")) => ret.kind # "raise"
    /\ Returned("read_box_header") =>
         ((Len(call.data) < 8
           \/ (U32At(call.data, 0) = 1 /\ Len(call.data) < 16))
          => ret.value = <<0, <<>>, 0>>)

\* the first box of the given type among the boxes lying in data[lo..hi):
\* where its payload starts and where the box ends
RECURSIVE FirstBoxIn(_, _, _, _)
FirstBoxIn(data, lo, hi, type) ==
    LET size32 == U32At(data, lo)
        header_size == IF size32 = 1 THEN 16 ELSE 8
        size == IF size32 = 1 THEN U64At(data, lo + 8)
                ELSE IF size32 = 0 THEN hi - lo ELSE size32
        absent == [found |-> FALSE, payload |-> lo, end |-> lo]
    IN IF hi - lo < 8 \/ (size32 = 1 /\ hi - lo < 16) THEN absent
       ELSE IF size < header_size \/ size > hi - lo THEN absent
       ELSE IF DecodeAscii(TypeAt(data, lo)) = type
       THEN [found |-> TRUE, payload |-> lo + header_size, end |-> lo + size]
       ELSE FirstBoxIn(data, lo + size, hi, type)

\* the chain of boxes a path names inside data[lo..hi), each the first of
\* its type inside the payload of the one before: the payload of the last
RECURSIVE ChainPayload(_, _, _, _)
ChainPayload(data, lo, hi, box_path) ==
    IF box_path = <<>> THEN [kind |-> "value", value |-> Slice(data, lo, hi)]
    ELSE LET b == FirstBoxIn(data, lo, hi, Head(box_path))
         IN IF b.found THEN ChainPayload(data, b.payload, b.end, Tail(box_path))
            ELSE [kind |-> "none", value |-> <<>>]

\* C15: find_box returns a result exactly when the path names a chain of
\* boxes, each the first of its type inside the payload of the one before and
\* never beyond its end; the result is the payload of the last box of the
\* chain; otherwise it returns None.
C15_ChainWithinParents ==
    (Returned("find_box") /\ ret.kind # "raise") =>
        ret = ChainPayload(call.data, 0, Len(call.data), call.box_path)

-----------------------------------------------------------------------------
(* The output file and the box writers *)

\* a binary file object: its bytes and its position (f.tell())
NewFile == [buf |-> <<>>, pos |-> 0]

\* f.write(bytes) at the current position; writes that follow one another
\* without a seek are modelled as one write of their bytes in order
FWrite(f, bytes) ==
    [f EXCEPT !.buf = SubSeq(@, 1, f.pos) \o bytes
                      \o SubSeq(@, f.pos + Len(bytes) + 1, Len(@)),
              !.pos = @ + Len(bytes)]

\* f.seek(pos)
FSeek(f, pos) == [f EXCEPT !.pos = pos]

\* f.seek(0, 2)
FSeekEnd(f) == [f EXCEPT !.pos = Len(f.buf)]

\* _write_box(f, box_type, content)
WriteBox(f, box_type, content) ==
    FWrite(f, U32BE(Len(content) + 8) \o box_type \o content)

\* _write_fullbox(f, box_type, version, flags, content)
WriteFullbox(f, box_type, version, flags, content) ==
    FWrite(f, U32BE(Len(content) + 12) \o box_type \o <<version>> \o U24BE(flags)
              \o content)

\* a fix-up that leaves the position after the header it wrote
FixupBoxSizeM(f, start_pos, box_type) ==
    LET end_pos == f.pos
        size == end_pos - start_pos
    IN FWrite(FSeek(f, start_pos), U32BE(size) \o box_type)

\* _fixup_box_size(f, start_pos, box_type)
FixupBoxSize(f, start_pos, box_type) ==
    LET end_pos == f.pos
        size == end_pos - start_pos
    IN FSeek(FWrite(FSeek(f, start_pos), U32BE(size) \o box_type), end_pos)

T_stts == <<115, 116, 116, 115>>

\* a run that swallows every later duration
SameDurationM(entries, duration) == entries # <<>>

\* if entries and entries[-1][1] == sample.duration
SameDuration(entries, duration) ==
    entries # <<>> /\ entries[Len(entries)][2] = duration

\* the loop of _write_stts: entries are [count, duration]
RECURSIVE SttsEntries(_, _)
SttsEntries(sample_list, entries) ==
    IF sample_list = <<>> THEN entries
    ELSE LET sample == Head(sample_list)
         IN SttsEntries(Tail(sample_list),
              IF SameDuration(entries, sample.duration)
              THEN [entries EXCEPT ![Len(entries)] = <<@[1] + 1, @[2]>>]
              ELSE Append(entries, <<1, sample.duration>>))

\* _write_stts(f, samples)
WriteStts(f, sample_list) ==
    LET entries == SttsEntries(sample_list, <<>>)
        content == U32BE(Len(entries))
                   \o Flatten([k \in 1..Len(entries) |->
                                 U32BE(entries[k][1]) \o U32BE(entries[k][2])])
    IN WriteFullbox(f, T_stts, 0, 0, content)

\* longest duration sequence of the calls of _write_stts
MaxDurations == 5

Durations == {1024, 2048}

InitStts ==
    /\ NoPipeline
    /\ \E ds \in SeqsUpTo(Durations, MaxDurations) :
         call = [fn |-> "_write_stts",
                 samples |-> [k \in 1..Len(ds) |-> SampleInfo(<<>>, ds[k], 0)]]
    /\ ret = None

\* _write_stts(f, samples) on an empty file
CallWriteStts ==
    /\ call # None
    /\ call.fn = "_write_stts"
    /\ ret = None
    /\ ret' = [kind |-> "value", value |-> WriteStts(NewFile, call.samples).buf]
    /\ UNCHANGED <<dvars, evars, call, outf, mux, other>>

NextStts == CallWriteStts

SpecStts == InitStts /\ [][NextStts]_vars

\* the (count, duration) entries of an stts box, read back from its bytes
SttsTable(box) ==
    [k \in 1..((Len(box) - 16) \div 8) |->
        <<U32At(box, 16 + 8 * (k - 1)), U32At(box, 20 + 8 * (k - 1))>>]

\* each entry's duration repeated count times
RECURSIVE Expand(_)
Expand(entries) ==
    IF entries = <<>> THEN <<>>
    ELSE Repeat(Head(entries)[1], Head(entries)[2]) \o Expand(Tail(entries))

\* C16: the stts box run-length encodes the durations: its entries expanded
\* give back the duration sequence, every count is at least 1, adjacent
\* entries differ in duration, entry_count is the number of entries;
\* [1024, 1024, 1024, 2048, 2048] gives [(3, 1024), (2, 2048)] and an empty
\* list gives zero entries.
C16_SttsRunLength ==
    Returned("_write_stts") =>
        LET box == ret.value
            table == SttsTable(box)
            ds == [k \in 1..Len(call.samples) |-> call.samples[k].duration]
        IN /\ U32At(box, 0) = Len(box) /\ TypeAt(box, 0) = T_stts
           /\ Len(box) = 16 + 8 * Len(table)
           /\ U32At(box, 12) = Len(table)
           /\ Expand(table) = ds
           /\ \A k \in 1..Len(table) : table[k][1] >= 1
           /\ \A k \in 1..(Len(table) - 1) : table[k][2] # table[k + 1][2]
           /\ ds = <<1024, 1024, 1024, 2048, 2048>> => table = <<<<3, 1024>>, <<2, 2048>>>>
           /\ ds = <<>> => table = <<>>

C16_Witness ==
    /\ Returned("_write_stts")
    /\ [k \in 1..Len(call.samples) |-> call.samples[k].duration]
         = <<1024, 1024, 1024, 2048, 2048>>
    /\ SttsTable(ret.value) = <<<<3, 1024>>, <<2, 2048>>>>

-----------------------------------------------------------------------------
(* write_decrypted_m4a: the muxer *)

T_stsd == <<115, 116, 115, 100>>
T_mdhd == <<109, 100, 104, 100>>
T_mvhd == <<109, 118, 104, 100>>
T_tkhd == <<116, 107, 104, 100>>
T_hdlr == <<104, 100, 108, 114>>
T_smhd == <<115, 109, 104, 100>>
T_dref == <<100, 114, 101, 102>>
T_dinf == <<100, 105, 110, 102>>
T_stbl == <<115, 116, 98, 108>>
T_minf == <<109, 105, 110, 102>>
T_stsc == <<115, 116, 115, 99>>
T_stsz == <<115, 116, 115, 122>>
T_stco == <<115, 116, 99, 111>>
T_alac == <<97, 108, 97, 99>>

U16BE(n) == <<(n \div 256) % 256, n % 256>>

Zeros(n) == Repeat(n, 0)

\* data.find(pattern): the index of the first occurrence, -1 if there is none
Find(data, pattern) ==
    LET hits == {k \in 0..(Len(data) - Len(pattern)) :
                    SubSeq(data, k + 1, k + Len(pattern)) = pattern}
    IN IF hits = {} THEN -1 ELSE CHOOSE k \in hits : \A m \in hits : k <= m

\* smallest and largest stsd box size _extract_stsd_content accepts
MinStsdSize == 16
MaxStsdSize == 10000

\* _extract_stsd_content(data)
ExtractStsdContent(data) ==
    LET idx == Find(data, T_stsd)
        size == U32At(data, idx - 4)
    IN IF idx < 4 THEN None
       ELSE IF size < MinStsdSize \/ size > MaxStsdSize THEN None
       ELSE Slice(data, idx + 4, idx - 4 + size)

\* timescale = 44100  # Default
DefaultTimescale == 44100

\* _extract_timescale(data)
ExtractTimescale(data) ==
    LET idx == Find(data, T_mdhd)
    IN IF idx > 0 /\ idx + 24 < Len(data) THEN U32At(data, idx + 16)
       ELSE DefaultTimescale

\* _write_ftyp(f)
WriteFtyp(f) ==
    WriteBox(f, T_ftyp, <<77, 52, 65, 32>> \o U32BE(0) \o <<77, 52, 65, 32, 109, 112, 52, 50, 105, 115, 111, 109, 0, 0, 0, 0>>)

\* struct.pack(">9I", 0x00010000, 0, 0, 0, 0x00010000, 0, 0, 0, 0x40000000)
Matrix ==
    U32BE(65536) \o Zeros(12) \o U32BE(65536) \o Zeros(12) \o U32BE(1073741824)

MvhdContent(total_duration, timescale) ==
    U32BE(0) \o U32BE(0) \o U32BE(timescale) \o U32BE(total_duration)
    \o U32BE(65536) \o U16BE(256) \o Zeros(10) \o Matrix \o Zeros(24) \o U32BE(2)

TkhdContent(total_duration) ==
    U32BE(0) \o U32BE(0) \o U32BE(1) \o U32BE(0) \o U32BE(total_duration)
    \o Zeros(8) \o U16BE(0) \o U16BE(0) \o U16BE(256) \o U16BE(0) \o Matrix
    \o U32BE(0) \o U32BE(0)

MdhdContent(total_duration, timescale) ==
    U32BE(0) \o U32BE(0) \o U32BE(timescale) \o U32BE(total_duration)
    \o U16BE(21956) \o U16BE(0)

HdlrContent == U32BE(0) \o <<115, 111, 117, 110>> \o Zeros(12) \o <<83, 111, 117, 110, 100, 72, 97, 110, 100, 108, 101, 114, 0>>

SmhdContent == U16BE(0) \o U16BE(0)

DrefContent == U32BE(1) \o U32BE(12) \o <<117, 114, 108, 32>> \o U32BE(1)

\* lines 487-555: from the moov placeholder to the dref box; the positions
\* kept for the fix-ups
MoovHeaders(f, total_duration, timescale) ==
    LET f1 == FWrite(f, Zeros(8))
        f2 == WriteFullbox(f1, T_mvhd, 0, 0, MvhdContent(total_duration, timescale))
        f3 == FWrite(f2, Zeros(8))
        f4 == WriteFullbox(f3, T_tkhd, 0, 7, TkhdContent(total_duration))
        f5 == FWrite(f4, Zeros(8))
        f6 == WriteFullbox(f5, T_mdhd, 0, 0, MdhdContent(total_duration, timescale))
        f7 == WriteFullbox(f6, T_hdlr, 0, 0, HdlrContent)
        f8 == FWrite(f7, Zeros(8))
        f9 == WriteFullbox(f8, T_smhd, 0, 0, SmhdContent)
        f10 == FWrite(f9, Zeros(8))
        f11 == WriteFullbox(f10, T_dref, 0, 0, DrefContent)
    IN [f |-> f11, moov_start |-> f.pos, trak_start |-> f2.pos,
        mdia_start |-> f4.pos, minf_start |-> f7.pos, dinf_start |-> f9.pos]

\* the default ALAC magic cookie of _write_stsd_alac_fallback
DefaultConfig == <<0, 0, 16, 0, 0, 24, 40, 40, 10, 2, 0, 0, 0, 0, 255, 255, 0, 13, 0, 128, 0, 0, 172, 68>>

\* if stsd_content
Truthy(bytes) == bytes # None /\ bytes # <<>>

\* lines 623-651 of _write_stsd_alac_fallback: the placeholders, the sample
\* entry fields and the alac box, before the fix-ups; 44100 << 16 is packed
\* as the two 16-bit halves 44100 and 0
AlacFallbackBody(f) ==
    LET f1 == FWrite(f, Zeros(12) \o U32BE(1))
        f2 == FWrite(f1, Zeros(8) \o Zeros(6) \o U16BE(1) \o Zeros(8) \o U16BE(2)
                         \o U16BE(16) \o U16BE(0) \o U16BE(0)
                         \o U16BE(44100) \o U16BE(0))
    IN [f |-> WriteBox(f2, T_alac, DefaultConfig),
        stsd_start |-> f.pos, alac_start |-> f1.pos]

\* lines 656-662: the fix of the fallback stsd header
FixStsd(f, stsd_start) ==
    LET end_pos == f.pos
        size == end_pos - stsd_start
    IN FSeek(FWrite(FSeek(f, stsd_start), U32BE(size) \o T_stsd \o U32BE(0)), end_pos)

\* _write_stsd(f, stsd_content) when stsd_content is given
CopyStsd(f, stsd_content) ==
    FWrite(f, U32BE(Len(stsd_content) + 8) \o T_stsd \o stsd_content)

\* an stsz entry that counts only the encrypted whole blocks of the sample
StszEntryM(sample) == TruncatedLen(Len(sample.data))

\* struct.pack(">I", len(sample.data))
StszEntry(sample) == Len(sample.data)

\* lines 567-588: stts, stsc, stsz and stco with its placeholder offset
WriteTables(f, sample_list) ==
    LET f1 == WriteStts(f, sample_list)
        f2 == WriteFullbox(f1, T_stsc, 0, 0,
                           U32BE(1) \o U32BE(1) \o U32BE(Len(sample_list)) \o U32BE(1))
        f3 == WriteFullbox(f2, T_stsz, 0, 0,
                           U32BE(0) \o U32BE(Len(sample_list))
                           \o Flatten([k \in 1..Len(sample_list) |->
                                         U32BE(StszEntry(sample_list[k]))]))
    IN [f |-> WriteFullbox(f3, T_stco, 0, 0, U32BE(1) \o U32BE(0)),
        stco_pos |-> f3.pos]

\* a patch that lands on the entry count of stco
StcoFieldM(stco_pos) == stco_pos + 12

\* f.seek(stco_pos + 16)
StcoField(stco_pos) == stco_pos + 16

\* lines 596-600: the chunk offset written into stco
PatchStco(f, stco_pos) ==
    LET mdat_offset == f.pos + 8
    IN FSeekEnd(FWrite(FSeek(f, StcoField(stco_pos)), U32BE(mdat_offset)))

\* an mdat padded to an even length
WriteMdatM(f, data) ==
    FWrite(f, U32BE(Len(data) + 8) \o T_mdat \o data \o Zeros(Len(data) % 2))

\* _write_mdat(f, data)
WriteMdat(f, data) ==
    FWrite(f, U32BE(Len(data) + 8) \o T_mdat \o data)

\* sum(s.duration for s in song_info.samples)
RECURSIVE TotalDuration(_)
TotalDuration(sample_list) ==
    IF sample_list = <<>> THEN 0
    ELSE Head(sample_list).duration + TotalDuration(Tail(sample_list))

\* _write_stsd(f, stsd_content)
WriteStsdBox(f, stsd_content) ==
    IF Truthy(stsd_content) THEN CopyStsd(f, stsd_content)
    ELSE LET body == AlacFallbackBody(f)
         IN FixStsd(FixupBoxSize(body.f, body.alac_start, T_alac), body.stsd_start)

\* the statements of a function run one after the other: the value of the
\* last one, those of the earlier ones having been computed before it
InOrder(earlier, last) == IF earlier = <<>> THEN last ELSE last

\* _write_moov(f, samples, total_duration, timescale, stsd_content, decrypted_data)
WriteMoov(f, sample_list, total_duration, timescale, stsd_content) ==
    LET h == MoovHeaders(f, total_duration, timescale)
        f1 == FixupBoxSize(h.f, h.dinf_start, T_dinf)
        stbl_start == f1.pos
        f2 == WriteStsdBox(FWrite(f1, Zeros(8)), stsd_content)
        t == WriteTables(f2, sample_list)
        f3 == FixupBoxSize(t.f, stbl_start, T_stbl)
        f4 == FixupBoxSize(f3, h.minf_start, T_minf)
        f5 == FixupBoxSize(f4, h.mdia_start, T_mdia)
        f6 == FixupBoxSize(f5, h.trak_start, T_trak)
        f7 == FixupBoxSize(f6, h.moov_start, T_moov)
    IN InOrder(<<h, f2, t, f5>>, PatchStco(f7, t.stco_pos))

\* lines 407-432: the bytes write_decrypted_m4a leaves in the temporary file
MuxedFile(sample_list, decrypted, orig_data) ==
    WriteMdat(WriteMoov(WriteFtyp(NewFile), sample_list, TotalDuration(sample_list),
                        ExtractTimescale(orig_data), ExtractStsdContent(orig_data)),
              decrypted).buf

-----------------------------------------------------------------------------
(* decrypt_file after decrypt_samples returned: write_decrypted_m4a *)

\* lines 407-432: the muxer writes ftyp, moov, mdat to the temporary file
WriteTemp ==
    /\ pc = "returned"
    /\ temp_file' = MuxedFile(song_samples, result.data, raw_data)
    /\ pc' = "normalize"
    /\ UNCHANGED <<evars, fvars, samples, track_id, fairplay_key, i, last_desc_index,
                   decrypted_data, wbuf, wire, rx, sock, exc, result,
                   output_file>>

NormalizerOutcomes == {"ok", "nonzero", "FileNotFoundError", "OSError"}

\* lines 435-453: subprocess.run(mp4decrypt ...) and the fallback
Normalize ==
    /\ pc = "normalize"
    /\ \E outcome \in NormalizerOutcomes :
         CASE outcome = "ok" ->
                /\ output_file' = "normalized"
                /\ temp_file' = "absent"
                /\ pc' = "done"
                /\ UNCHANGED exc
           [] outcome \in {"nonzero", "FileNotFoundError"} ->
                /\ output_file' = temp_file
                /\ temp_file' = "absent"
                /\ pc' = "done"
                /\ UNCHANGED exc
           [] OTHER ->
                /\ exc' = "OSError"
                /\ pc' = "failed"
                /\ UNCHANGED <<temp_file, output_file>>
    /\ UNCHANGED <<evars, fvars, samples, track_id, fairplay_key, i, last_desc_index,
                   decrypted_data, wbuf, wire, rx, sock, result>>

NextDecrypt ==
    \/ Connect
    \/ ConnectFail
    \/ CheckKey
    \/ SendCipher
    \/ RecvPlain
    \/ AppendClear
    \/ CloseSignal
    \/ Finally
    \/ WriteTemp
    \/ Normalize

SpecDecrypt == InitDecrypt /\ [][NextDecrypt]_vars

\* the samples muxed: 5 bytes lasting 1024 and 16 bytes lasting 2048
MuxSamples == {SampleInfo(Bytes(5, 0), 1024, 0), SampleInfo(Bytes(16, 64), 2048, 0)}

\* a source stsd box: FullBox header, entry count 1, one 12-byte entry
SourceStsd == Box(T_stsd, U32BE(0) \o U32BE(1) \o U32BE(12) \o <<102, 76, 97, 67>> \o U32BE(7))

\* a source mdhd box with timescale 48000
SourceMdhd == Box(T_mdhd, U32BE(0) \o U32BE(0) \o U32BE(0) \o U32BE(48000)
                          \o U32BE(0) \o U32BE(0))

\* a source mdhd box of version 1, its times 64 bits wide, with timescale
\* 48000
SourceMdhdV1 == Box(T_mdhd, U32BE(16777216) \o Zeros(8) \o Zeros(8) \o U32BE(48000)
                            \o Zeros(8) \o U32BE(0))

\* the content of the source's sample description box
SourceStsdContent == Slice(SourceStsd, 8, Len(SourceStsd))

\* a source file: its bytes, the content of its stsd box and the timescale
\* of its media header, each Absent when the file has no such box
Source(bytes, stsd, timescale) == [bytes |-> bytes, stsd |-> stsd, timescale |-> timescale]

\* the source files read again by the muxer: empty; with a media header and
\* a sample description; with a sample description only; with a free box
\* whose payload is the four letters stsd ahead of the movie box; with a
\* free box whose payload ends in 00 00 00 14 and the four letters stsd;
\* with a media header of version 1
MuxSources ==
    {Source(<<>>, Absent, Absent),
     Source(Box(T_ftyp, <<77, 52, 65, 32>>) \o Box(T_moov, SourceMdhd \o SourceStsd),
            <<SourceStsdContent>>, <<48000>>),
     Source(Box(T_moov, SourceStsd \o Box(T_free, <<1>>)),
            <<SourceStsdContent>>, Absent),
     Source(Box(T_free, T_stsd) \o Box(T_moov, SourceMdhd \o SourceStsd),
            <<SourceStsdContent>>, <<48000>>),
     Source(Box(T_free, U32BE(20) \o T_stsd) \o Box(T_moov, SourceStsd),
            <<SourceStsdContent>>, Absent),
     Source(Box(T_moov, SourceMdhdV1 \o SourceStsd),
            <<SourceStsdContent>>, <<48000>>)}

Sources == {src.bytes : src \in MuxSources}

\* what decrypt_samples appends for a sample: the decrypted prefix and the
\* clear tail
DecryptedOf(s) == PlainOf(s) \o ClearOf(s)

InitMux ==
    /\ NoPipeline
    /\ \E ss \in SeqsUpTo(MuxSamples, MaxSamples), orig_data \in Sources :
         call = [fn |-> "write_decrypted_m4a", samples |-> ss,
                 decrypted_data |-> Flatten([k \in 1..Len(ss) |-> DecryptedOf(ss[k])]),
                 orig_data |-> orig_data]
    /\ ret = None

MuxAt(at) == mux # None /\ mux.at = at

\* lines 407-422: the source is read for stsd and timescale, the temporary
\* file is opened, ftyp is written and total_duration summed
OpenTemp ==
    /\ call # None /\ call.fn = "write_decrypted_m4a"
    /\ mux = None
    /\ outf' = WriteFtyp(NewFile)
    /\ mux' = [at |-> "moov",
               stsd_content |-> ExtractStsdContent(call.orig_data),
               timescale |-> ExtractTimescale(call.orig_data),
               total_duration |-> TotalDuration(call.samples),
               moov_start |-> 0, trak_start |-> 0, mdia_start |-> 0,
               minf_start |-> 0, dinf_start |-> 0, stbl_start |-> 0,
               stsd_start |-> 0, alac_start |-> 0, stco_pos |-> 0]
    /\ UNCHANGED <<dvars, evars, call, ret, other>>

\* _write_moov up to the dref box
WriteHeaders ==
    /\ MuxAt("moov")
    /\ LET h == MoovHeaders(outf, mux.total_duration, mux.timescale)
       IN /\ outf' = h.f
          /\ mux' = [mux EXCEPT !.at = "fix_dinf",
                                !.moov_start = h.moov_start,
                                !.trak_start = h.trak_start,
                                !.mdia_start = h.mdia_start,
                                !.minf_start = h.minf_start,
                                !.dinf_start = h.dinf_start]
    /\ UNCHANGED <<dvars, evars, call, ret, other>>

\* the calls of _fixup_box_size in program order: where each is made, the
\* box it closes and what follows
Fixups ==
    {[at |-> "fix_dinf", box_type |-> T_dinf, then |-> "stsd"],
     [at |-> "fix_alac", box_type |-> T_alac, then |-> "fix_stsd"],
     [at |-> "fix_stbl", box_type |-> T_stbl, then |-> "fix_minf"],
     [at |-> "fix_minf", box_type |-> T_minf, then |-> "fix_mdia"],
     [at |-> "fix_mdia", box_type |-> T_mdia, then |-> "fix_trak"],
     [at |-> "fix_trak", box_type |-> T_trak, then |-> "fix_moov"],
     [at |-> "fix_moov", box_type |-> T_moov, then |-> "patch"]}

StartOf(box_type) ==
    CASE box_type = T_dinf -> mux.dinf_start
      [] box_type = T_alac -> mux.alac_start
      [] box_type = T_stbl -> mux.stbl_start
      [] box_type = T_minf -> mux.minf_start
      [] box_type = T_mdia -> mux.mdia_start
      [] box_type = T_trak -> mux.trak_start
      [] box_type = T_moov -> mux.moov_start
      [] box_type = T_stsd -> mux.stsd_start

\* one call of _fixup_box_size
Fixup ==
    /\ mux # None
    /\ \E fx \in Fixups :
         /\ mux.at = fx.at
         /\ outf' = FixupBoxSize(outf, StartOf(fx.box_type), fx.box_type)
         /\ mux' = [mux EXCEPT !.at = fx.then]
    /\ UNCHANGED <<dvars, evars, call, ret, other>>

\* lines 558-562: the stbl placeholder and _write_stsd, the copy or the
\* fallback up to its fix-ups
WriteStsd ==
    /\ MuxAt("stsd")
    /\ LET f1 == FWrite(outf, Zeros(8))
           body == AlacFallbackBody(f1)
       IN IF Truthy(mux.stsd_content)
          THEN /\ outf' = CopyStsd(f1, mux.stsd_content)
               /\ mux' = [mux EXCEPT !.at = "tables", !.stbl_start = outf.pos,
                                     !.stsd_start = f1.pos]
          ELSE /\ outf' = body.f
               /\ mux' = [mux EXCEPT !.at = "fix_alac", !.stbl_start = outf.pos,
                                     !.stsd_start = body.stsd_start,
                                     !.alac_start = body.alac_start]
    /\ UNCHANGED <<dvars, evars, call, ret, other>>

\* the fix of the fallback stsd header
FixStsdHeader ==
    /\ MuxAt("fix_stsd")
    /\ outf' = FixStsd(outf, mux.stsd_start)
    /\ mux' = [mux EXCEPT !.at = "tables"]
    /\ UNCHANGED <<dvars, evars, call, ret, other>>

\* stts, stsc, stsz, stco
WriteSampleTables ==
    /\ MuxAt("tables")
    /\ LET t == WriteTables(outf, call.samples)
       IN /\ outf' = t.f
          /\ mux' = [mux EXCEPT !.at = "fix_stbl", !.stco_pos = t.stco_pos]
    /\ UNCHANGED <<dvars, evars, call, ret, other>>

\* the patch of the chunk offset, with which _write_moov returns
PatchChunkOffset ==
    /\ MuxAt("patch")
    /\ outf' = PatchStco(outf, mux.stco_pos)
    /\ mux' = [mux EXCEPT !.at = "mdat"]
    /\ UNCHANGED <<dvars, evars, call, ret, other>>

\* _write_mdat and the end of the with block
WriteMdatBox ==
    /\ MuxAt("mdat")
    /\ outf' = WriteMdat(outf, call.decrypted_data)
    /\ mux' = [mux EXCEPT !.at = "written"]
    /\ UNCHANGED <<dvars, evars, call, ret, other>>

NextMux ==
    \/ OpenTemp
    \/ WriteHeaders
    \/ Fixup
    \/ WriteStsd
    \/ FixStsdHeader
    \/ WriteSampleTables
    \/ PatchChunkOffset
    \/ WriteMdatBox

SpecMux == InitMux /\ [][NextMux]_vars

-----------------------------------------------------------------------------
(* Claims about the muxer's boxes *)

\* _write_moov has just returned
AfterMoov == MuxAt("mdat")

UsesFallback == ~Truthy(mux.stsd_content)

\* the sizes of the boxes lying back to back in buf[lo..hi) summed, -1 if
\* boxes do not fill it exactly
RECURSIVE ChildrenSum(_, _, _)
ChildrenSum(buf, lo, hi) ==
    IF lo = hi THEN 0
    ELSE IF hi - lo < 8 THEN -1
    ELSE LET size == U32At(buf, lo)
             rest == ChildrenSum(buf, lo + size, hi)
         IN IF size < 8 \/ lo + size > hi THEN -1
            ELSE IF rest < 0 THEN -1 ELSE size + rest

\* where the stts box starts, which is where the stsd box ends
SttsStart == Find(outf.buf, T_stts) - 4

\* the boxes written with a placeholder header: where each starts and ends
\* and how many bytes of fields of its own precede its children
Containers ==
    {[type |-> T_moov, start |-> mux.moov_start, end |-> Len(outf.buf), own |-> 0],
     [type |-> T_trak, start |-> mux.trak_start, end |-> Len(outf.buf), own |-> 0],
     [type |-> T_mdia, start |-> mux.mdia_start, end |-> Len(outf.buf), own |-> 0],
     [type |-> T_minf, start |-> mux.minf_start, end |-> Len(outf.buf), own |-> 0],
     [type |-> T_stbl, start |-> mux.stbl_start, end |-> Len(outf.buf), own |-> 0],
     [type |-> T_dinf, start |-> mux.dinf_start, end |-> mux.stbl_start, own |-> 0]}
    \cup (IF UsesFallback
          THEN {[type |-> T_stsd, start |-> mux.stsd_start, end |-> SttsStart, own |-> 8],
                [type |-> T_alac, start |-> mux.alac_start, end |-> SttsStart, own |-> 28]}
          ELSE {})

SizeIsSpan(c) ==
    /\ TypeAt(outf.buf, c.start) = c.type
    /\ U32At(outf.buf, c.start) = c.end - c.start

\* a placeholder followed by a lone 12-byte child, fixed up
LoneChild ==
    FixupBoxSize(WriteBox(FWrite(NewFile, Zeros(8)), T_free, Zeros(4)), 0, T_dinf)

\* the statement reached is a size fix-up of the box starting at `start`
FixingAt(start) ==
    /\ mux # None
    /\ \/ \E fx \in Fixups : mux.at = fx.at /\ start = StartOf(fx.box_type)
       \/ mux.at = "fix_stsd" /\ start = mux.stsd_start

\* a fix-up changes only the 8 header bytes of its box and leaves the
\* position at the end of the file
FixupTouchesHeaderOnly ==
    \A start \in 0..Len(outf.buf) :
        FixingAt(start) =>
            /\ Len(outf'.buf) = Len(outf.buf)
            /\ \A k \in 1..Len(outf.buf) :
                 (k <= start \/ k > start + 8) => outf'.buf[k] = outf.buf[k]
            /\ outf'.pos = Len(outf'.buf)

(* C17 (as claimed): after _write_moov every box written with a           *)
(* placeholder header, the fallback stsd and its alac entry included, has *)
(* a size field equal to the bytes from its start to its end, which is 8  *)
(* plus the sum of its children's sizes; each fix-up overwrites only the  *)
(* 8 placeholder bytes and puts the position back at the end.             *)
C17_SizeIsEightPlusChildren ==
    /\ [](AfterMoov =>
            \A c \in Containers :
               /\ SizeIsSpan(c)
               /\ ChildrenSum(outf.buf, c.start + 8, c.end) = c.end - c.start - 8)
    /\ [][mux # None => FixupTouchesHeaderOnly]_vars

(* C17 (amended): the size field of each such box is the bytes from its   *)
(* start to its end: 8 plus its children's sizes for moov, trak, mdia,    *)
(* minf, dinf and stbl, with 8 more bytes of own fields for the fallback  *)
(* stsd and 28 more for its alac entry; a lone 12-byte child gives 20;    *)
(* each fix-up changes only the 8 header bytes and puts the position back *)
(* at the end.                                                            *)
C17_SizeIsSpanOfBox ==
    /\ [](AfterMoov =>
            \A c \in Containers :
               /\ SizeIsSpan(c)
               /\ ChildrenSum(outf.buf, c.start + 8 + c.own, c.end)
                    = c.end - c.start - 8 - c.own)
    /\ [](AfterMoov => outf.pos = Len(outf.buf))
    /\ [](U32At(LoneChild.buf, 0) = 20 /\ LoneChild.pos = 20)
    /\ [][mux # None => FixupTouchesHeaderOnly]_vars

\* _write_moov has returned from writing the fallback description for two
\* samples: stsd is 84 bytes, its alac entry 68, dinf 36
C17_Witness ==
    /\ AfterMoov
    /\ UsesFallback
    /\ Len(call.samples) = 2
    /\ U32At(outf.buf, mux.stsd_start) = 84
    /\ U32At(outf.buf, mux.alac_start) = 68
    /\ U32At(outf.buf, mux.dinf_start) = 36
    /\ U32At(outf.buf, mux.moov_start) = Len(outf.buf) - 32

\* the temporary file is complete
Written == MuxAt("written")

\* the chunk offset stored in the stco box
ChunkOffset == U32At(outf.buf, mux.stco_pos + 16)

\* C18: the single chunk offset in stco is the absolute position of the
\* first payload byte of mdat, size of ftyp + size of moov + 8, for every
\* sample list and for the copied and the fallback stsd; the patch changes
\* only those 4 bytes.
C18_ChunkOffsetPointsAtPayload ==
    /\ [](Written =>
            LET ftyp_size == U32At(outf.buf, 0)
                moov_size == U32At(outf.buf, ftyp_size)
            IN /\ TypeAt(outf.buf, 0) = T_ftyp
               /\ TypeAt(outf.buf, ftyp_size) = T_moov
               /\ TypeAt(outf.buf, ftyp_size + moov_size) = T_mdat
               /\ TypeAt(outf.buf, mux.stco_pos) = T_stco
               /\ U32At(outf.buf, mux.stco_pos + 12) = 1
               /\ ChunkOffset = ftyp_size + moov_size + 8
               /\ Slice(outf.buf, ChunkOffset, Len(outf.buf)) = call.decrypted_data)
    /\ [][MuxAt("patch") =>
            /\ Len(outf'.buf) = Len(outf.buf)
            /\ \A k \in 1..Len(outf.buf) :
                 (k <= mux.stco_pos + 16 \/ k > mux.stco_pos + 20)
                    => outf'.buf[k] = outf.buf[k]
            /\ outf'.pos = Len(outf'.buf)]_vars

\* a complete file with the source's stsd copied and two samples: the offset
\* is where the payload starts
C18_Witness ==
    /\ Written
    /\ Truthy(mux.stsd_content)
    /\ Len(call.samples) = 2
    /\ call.decrypted_data # <<>>
    /\ ChunkOffset = Len(outf.buf) - Len(call.decrypted_data)

\* the source file the muxer was called with
MuxSource == CHOOSE src \in MuxSources : src.bytes = call.orig_data

\* the content of the stsd box of the written file and where the box ends
\* by its size field
WrittenStsd ==
    LET size == U32At(outf.buf, mux.stsd_start)
    IN [content |-> Slice(outf.buf, mux.stsd_start + 8, mux.stsd_start + size),
        end |-> mux.stsd_start + size]

\* the content of the synthesized stsd box
FallbackStsdContent ==
    LET f == WriteStsdBox(NewFile, None)
    IN Slice(f.buf, 8, Len(f.buf))

\* C21: the written stsd box has the content of the source's stsd box
\* whenever the source has one, wherever the letters stsd first occur in the
\* source; the fallback is written only when the source has none; and the
\* size field of the written box is the number of bytes written for it.
C21_StsdCopiedVerbatim ==
    Written =>
        /\ TypeAt(outf.buf, mux.stsd_start) = T_stsd
        /\ MuxSource.stsd # Absent => WrittenStsd.content = MuxSource.stsd[1]
        /\ MuxSource.stsd = Absent <=> WrittenStsd.content = FallbackStsdContent
        /\ WrittenStsd.end = SttsStart

-----------------------------------------------------------------------------
(* decrypt_file: extract_song, decrypt_samples, write_decrypted_m4a *)

\* most fragments of an input file of the pipeline
MaxFragments == 2

\* what precedes the fragments of a source with a media header and a sample
\* description
SourceHead == Box(T_ftyp, <<77, 52, 65, 32>>) \o Box(T_moov, SourceMdhd \o SourceStsd)

\* a fragment of the input: the description of its moof and its payload
Fragment(d, payload) == [desc |-> d, payload |-> payload]

\* a run of (1024, 16), (2048, 5) under description 1
TwoSampleFragment ==
    Fragment([tfhd_first |-> TRUE, desc_index |-> <<1>>,
              default_duration |-> Absent, default_size |-> Absent,
              run_durations |-> TRUE, run_sizes |-> TRUE,
              entries |-> <<[duration |-> 1024, size |-> 16],
                            [duration |-> 2048, size |-> 5]>>],
             Bytes(21, 16))

\* a run of one entry taking the tfhd defaults (512, 5) under description 2,
\* the tfhd after the trun
DefaultsFragment ==
    Fragment([tfhd_first |-> FALSE, desc_index |-> <<2>>,
              default_duration |-> <<512>>, default_size |-> <<5>>,
              run_durations |-> FALSE, run_sizes |-> FALSE,
              entries |-> <<[duration |-> 0, size |-> 0]>>],
             Bytes(5, 100))

\* a run whose second entry of 50 bytes overruns the payload
OverrunFragment ==
    Fragment([tfhd_first |-> TRUE, desc_index |-> <<1>>,
              default_duration |-> Absent, default_size |-> Absent,
              run_durations |-> TRUE, run_sizes |-> TRUE,
              entries |-> <<[duration |-> 1024, size |-> 16],
                            [duration |-> 1024, size |-> 50],
                            [duration |-> 1024, size |-> 5]>>],
             Bytes(21, 48))

PipelineFragments == {TwoSampleFragment, DefaultsFragment, OverrunFragment}

FragmentBytes(fr) == MoofOf(fr.desc) \o Box(T_mdat, fr.payload)

\* an input file: its bytes and the fragments they were built from
PipelineInputs ==
    {[bytes |-> pre \o Flatten([k \in 1..Len(fr) |-> FragmentBytes(fr[k])]),
      fragments |-> fr] :
        pre \in {<<>>, SourceHead}, fr \in SeqsUpTo(PipelineFragments, MaxFragments)}

InitPipeline ==
    /\ \E in \in PipelineInputs : raw_data = in.bytes
    /\ \E c \in Callers : track_id = c[1] /\ fairplay_key = c[2]
    /\ epc = "collect"
    /\ offset = 0
    /\ boxes = <<>>
    /\ bi = 1
    /\ moof_box = None
    /\ song_samples = <<>>
    /\ ftyp_data = <<>>
    /\ moov_data = <<>>
    /\ call = None
    /\ ret = None
    /\ outf = None
    /\ mux = None
    /\ other = None
    /\ samples = <<>>
    /\ pc = "extract"
    /\ i = 1
    /\ last_desc_index = NoKeySentinel
    /\ decrypted_data = <<>>
    /\ wbuf = <<>>
    /\ wire = <<>>
    /\ rx = <<>>
    /\ sock = "none"
    /\ exc = "none"
    /\ result = [ok |-> FALSE, data |-> <<>>]
    /\ temp_file = "absent"
    /\ output_file = "absent"

\* lines 777-784: extract_song has returned and decrypt_samples is called
\* with song_info.samples
CallDecryptSamples ==
    /\ pc = "extract"
    /\ epc = "done"
    /\ samples' = song_samples
    /\ pc' = "connect"
    /\ sock' = "created"
    /\ UNCHANGED <<evars, fvars, track_id, fairplay_key, i, last_desc_index,
                   decrypted_data, wbuf, wire, rx, exc, result, temp_file,
                   output_file>>

NextPipeline ==
    \/ CollectBox
    \/ PairStep
    \/ CallDecryptSamples
    \/ NextDecrypt

SpecPipeline == InitPipeline /\ [][NextPipeline]_vars

-----------------------------------------------------------------------------
(* Claims about the output of the pipeline *)

\* the file is one the muxer wrote
IsMuxed(file) == file # "absent" /\ file # "normalized"

\* the payload of a sample table of the file, found by its box path
StblTable(file, type) ==
    FindBox(file, <<T_moov, T_trak, T_mdia, T_minf, T_stbl, type>>).value

\* the entries of the stsz table of the file
StszEntries(file) ==
    LET stsz == StblTable(file, T_stsz)
    IN [k \in 1..U32At(stsz, 8) |-> U32At(stsz, 12 + 4 * (k - 1))]

\* the size field of the box whose payload `rest` runs to the end of file
BoxSizeBefore(file, rest) == U32At(file, Len(file) - Len(rest) - 8)

\* the fragments the input file was built from
InputFragments == (CHOOSE in \in PipelineInputs : in.bytes = raw_data).fragments

\* the sizes the run entries of the input resolve to, in order
DeclaredSizes ==
    Flatten([k \in 1..Len(InputFragments) |->
        LET fr == InputFragments[k]
        IN [j \in 1..Len(fr.desc.entries) |-> ResolvedSize(fr.desc, fr.desc.entries[j])]])

\* the sizes of the run entries of the input that are of positive size and
\* fit in their payload, in order
TakenSizes ==
    Flatten([k \in 1..Len(InputFragments) |->
        LET fr == InputFragments[k]
            taken == Extracted(fr.desc, fr.desc.entries, Len(fr.payload), 0)
        IN [j \in 1..Len(taken) |-> taken[j].size]])

RECURSIVE Sum(_)
Sum(ns) == IF ns = <<>> THEN 0 ELSE Head(ns) + Sum(Tail(ns))

\* the stsz table of the file lists the samples extracted: sample_size 0,
\* sample_count the number of samples, entry i the length of sample i
StszOfSamples(file) ==
    LET stsz == StblTable(file, T_stsz)
        entries == StszEntries(file)
    IN /\ U32At(stsz, 4) = 0
       /\ Len(entries) = Len(song_samples)
       /\ BoxSizeBefore(file, stsz) = 20 + 4 * Len(entries)
       /\ \A k \in 1..Len(entries) : entries[k] = Len(song_samples[k].data)

\* C19 as stated: the stsz table of the muxed file lists the extracted
\* samples, so the boundaries read back from the output are the per-sample
\* sizes of the input.
C19_StszIsInputSizes ==
    IsMuxed(temp_file) =>
        /\ StszOfSamples(temp_file)
        /\ StszEntries(temp_file) = DeclaredSizes

\* C19: the stsz table of the muxed file has as many entries as samples
\* were extracted, the i-th being the byte length of the i-th extracted
\* sample, so the boundaries read back from the output are the sizes of the
\* run entries of the input that extraction took: those of positive size
\* that fit in their payload.
C19_StszRoundTrip ==
    IsMuxed(temp_file) =>
        /\ StszOfSamples(temp_file)
        /\ StszEntries(temp_file) = TakenSizes

\* a fragment whose middle entry overruns the payload, then a fragment of
\* one sample: three samples of 16, 5 and 5 bytes from four run entries
C19_Witness ==
    /\ IsMuxed(temp_file)
    /\ DeclaredSizes = <<16, 50, 5, 5>>
    /\ StszEntries(temp_file) = <<16, 5, 5>>

\* the file is ftyp, moov and one mdat holding `data`, sample k of
\* sample_list lying at the sum of the stsz entries before it
OneChunkLayout(file, data, sample_list) ==
    LET ftyp_size == U32At(file, 0)
        moov_size == U32At(file, ftyp_size)
        mdat_start == ftyp_size + moov_size
        payload == Slice(file, mdat_start + 8, Len(file))
        entries == StszEntries(file)
        stsc == StblTable(file, T_stsc)
    IN /\ TypeAt(file, 0) = T_ftyp
       /\ TypeAt(file, ftyp_size) = T_moov
       /\ TypeAt(file, mdat_start) = T_mdat
       /\ U32At(file, mdat_start) = Len(file) - mdat_start
       /\ payload = data
       /\ Len(payload) = Sum(entries)
       /\ BoxSizeBefore(file, stsc) = 28
       /\ U32At(stsc, 4) = 1 /\ U32At(stsc, 8) = 1
       /\ U32At(stsc, 12) = Len(sample_list) /\ U32At(stsc, 16) = 1
       /\ Len(entries) = Len(sample_list)
       /\ \A k \in 1..Len(sample_list) :
            LET before == Sum(SubSeq(entries, 1, k - 1))
            IN Slice(payload, before, before + entries[k]) = DecryptedOf(sample_list[k])

\* C20: whenever the pipeline has muxed, the file is ftyp, moov and one mdat
\* whose payload is exactly the buffer decrypt_samples returned; the payload
\* length is the sum of the stsz entries and stsc declares one chunk of all
\* n samples, sample i starting at the sum of the sizes before it.
C20_OneChunkOfReturnedBuffer ==
    /\ IsMuxed(temp_file) => OneChunkLayout(temp_file, result.data, samples)
    /\ IsMuxed(output_file) => OneChunkLayout(output_file, result.data, samples)

\* a completed run over three samples that kept the muxer's own file
C20_Witness ==
    /\ pc = "done"
    /\ IsMuxed(output_file)
    /\ Len(samples) = 3
    /\ Len(result.data) = 26

-----------------------------------------------------------------------------
(* Claims about the headers of the muxed file *)

\* the payload of a box of the written file, found by its path
WrittenBox(path) == FindBox(outf.buf, path).value

\* sum of count * duration over the entries of the written stts table
SttsDuration ==
    LET stts == StblTable(outf.buf, T_stts)
    IN Sum([k \in 1..U32At(stts, 4) |->
              U32At(stts, 8 + 8 * (k - 1)) * U32At(stts, 12 + 8 * (k - 1))])

\* the durations of the samples muxed, summed
SampleDurations == Sum([k \in 1..Len(call.samples) |-> call.samples[k].duration])

\* the duration fields of mvhd, tkhd and mdhd are the sum of the sample
\* durations, which is the sum over the stts entries; mvhd and mdhd carry
\* the same timescale
HeadersAgree ==
    LET mvhd == WrittenBox(<<T_moov, T_mvhd>>)
        tkhd == WrittenBox(<<T_moov, T_trak, T_tkhd>>)
        mdhd == WrittenBox(<<T_moov, T_trak, T_mdia, T_mdhd>>)
    IN /\ U32At(mvhd, 16) = SampleDurations
       /\ U32At(tkhd, 20) = SampleDurations
       /\ U32At(mdhd, 16) = SampleDurations
       /\ SttsDuration = SampleDurations
       /\ U32At(mvhd, 12) = U32At(mdhd, 12)

\* C22: in the written file the durations of mvhd, tkhd and mdhd equal the
\* sum of the sample durations and the sum of count * duration over stts;
\* mvhd and mdhd carry the same timescale, the one of the source's media
\* header when the source has one and 44100 otherwise.
C22_DurationsAndTimescale ==
    Written =>
        /\ HeadersAgree
        /\ U32At(WrittenBox(<<T_moov, T_mvhd>>), 12) =
              IF MuxSource.timescale # Absent THEN MuxSource.timescale[1]
              ELSE DefaultTimescale

-----------------------------------------------------------------------------
(* Claims about the normalization step *)

\* the step is the run of the normalization tool and what follows it in
\* write_decrypted_m4a
NormalizeStep == pc = "normalize" /\ pc' # pc

\* C23: once the temporary file is written, write_decrypted_m4a returns
\* normally whatever the normalization tool does: when the tool cannot be
\* started or exits non-zero the output file is byte for byte the muxer's
\* file, otherwise it is the tool's; in both cases the temporary file is gone.
C23_NormalizerNeverFatal ==
    [][NormalizeStep =>
         /\ pc' = "done"
         /\ exc' = exc
         /\ temp_file' = "absent"
         /\ output_file' \in {"normalized", temp_file}]_vars

-----------------------------------------------------------------------------
(* decrypt_file run twice on the same input *)

\* a session that carried its active key over from the run before
KeyStateAtEntryM(previous) == previous

\* line 327: last_desc_index = 255 at every entry of decrypt_samples
KeyStateAtEntry(previous) == NoKeySentinel

\* a completed run is followed by a second call of decrypt_file with the
\* same arguments: what the first run wrote and returned is kept in `ret`
\* for comparison; every local starts afresh, the files stay as they are
RunAgain ==
    /\ pc = "done"
    /\ ret = None
    /\ ret' = [wire |-> wire, data |-> result.data, samples |-> song_samples,
               ftyp_data |-> ftyp_data, moov_data |-> moov_data,
               output_file |-> output_file]
    /\ epc' = "collect"
    /\ offset' = 0
    /\ boxes' = <<>>
    /\ bi' = 1
    /\ moof_box' = None
    /\ song_samples' = <<>>
    /\ ftyp_data' = <<>>
    /\ moov_data' = <<>>
    /\ samples' = <<>>
    /\ pc' = "extract"
    /\ i' = 1
    /\ last_desc_index' = KeyStateAtEntry(last_desc_index)
    /\ decrypted_data' = <<>>
    /\ wbuf' = <<>>
    /\ wire' = <<>>
    /\ rx' = <<>>
    /\ sock' = "none"
    /\ exc' = "none"
    /\ result' = [ok |-> FALSE, data |-> <<>>]
    /\ UNCHANGED <<raw_data, track_id, fairplay_key, temp_file, output_file,
                   call, outf, mux, other>>

NextRerun ==
    \/ CollectBox
    \/ PairStep
    \/ CallDecryptSamples
    \/ NextDecrypt
    \/ RunAgain

SpecRerun == InitPipeline /\ [][NextRerun]_vars

\* the second run is under way
SecondRun == ret # None

\* s is t cut short
IsInitial(s, t) == Len(s) <= Len(t) /\ s = SubSeq(t, 1, Len(s))

-----------------------------------------------------------------------------
(* Two calls of decrypt_file in progress at once *)

\* the two calls: their containers, track identifiers and keys
ConcurrentCalls ==
    <<[bytes |-> SourceHead \o FragmentBytes(TwoSampleFragment)
                            \o FragmentBytes(DefaultsFragment),
       fragments |-> <<TwoSampleFragment, DefaultsFragment>>,
       track_id |-> <<49, 50>>,
       fairplay_key |-> <<115, 107, 100, 58, 47, 47, 107>>],
      [bytes |-> FragmentBytes(DefaultsFragment) \o FragmentBytes(OverrunFragment),
       fragments |-> <<DefaultsFragment, OverrunFragment>>,
       track_id |-> <<233>>,
       fairplay_key |-> <<115, 107, 100, 58, 47, 47, 113>>]>>

\* the locals and files of a call of decrypt_file at its entry
AtEntry(c) ==
    [samples |-> <<>>, track_id |-> c.track_id, fairplay_key |-> c.fairplay_key,
     pc |-> "extract", i |-> 1, last_desc_index |-> NoKeySentinel,
     decrypted_data |-> <<>>, wbuf |-> <<>>, wire |-> <<>>, rx |-> <<>>,
     sock |-> "none", exc |-> "none", result |-> [ok |-> FALSE, data |-> <<>>],
     temp_file |-> "absent", output_file |-> "absent",
     epc |-> "collect", raw_data |-> c.bytes, offset |-> 0, boxes |-> <<>>,
     bi |-> 1, moof_box |-> None, song_samples |-> <<>>, ftyp_data |-> <<>>,
     moov_data |-> <<>>]

\* the locals and files of the call that is taking steps
Running ==
    [samples |-> samples,
     track_id |-> track_id,
     fairplay_key |-> fairplay_key,
     pc |-> pc,
     i |-> i,
     last_desc_index |-> last_desc_index,
     decrypted_data |-> decrypted_data,
     wbuf |-> wbuf,
     wire |-> wire,
     rx |-> rx,
     sock |-> sock,
     exc |-> exc,
     result |-> result,
     temp_file |-> temp_file,
     output_file |-> output_file,
     epc |-> epc,
     raw_data |-> raw_data,
     offset |-> offset,
     boxes |-> boxes,
     bi |-> bi,
     moof_box |-> moof_box,
     song_samples |-> song_samples,
     ftyp_data |-> ftyp_data,
     moov_data |-> moov_data]

InitConcurrent ==
    /\ \E first \in 1..2 :
         LET entry == AtEntry(ConcurrentCalls[first])
         IN /\ other = AtEntry(ConcurrentCalls[3 - first])
            /\ samples = entry.samples
            /\ track_id = entry.track_id
            /\ fairplay_key = entry.fairplay_key
            /\ pc = entry.pc
            /\ i = entry.i
            /\ last_desc_index = entry.last_desc_index
            /\ decrypted_data = entry.decrypted_data
            /\ wbuf = entry.wbuf
            /\ wire = entry.wire
            /\ rx = entry.rx
            /\ sock = entry.sock
            /\ exc = entry.exc
            /\ result = entry.result
            /\ temp_file = entry.temp_file
            /\ output_file = entry.output_file
            /\ epc = entry.epc
            /\ raw_data = entry.raw_data
            /\ offset = entry.offset
            /\ boxes = entry.boxes
            /\ bi = entry.bi
            /\ moof_box = entry.moof_box
            /\ song_samples = entry.song_samples
            /\ ftyp_data = entry.ftyp_data
            /\ moov_data = entry.moov_data
    /\ call = None
    /\ ret = None
    /\ outf = None
    /\ mux = None

\* an active-key state kept in one place for both calls
ActiveKeyStateM(inst) == last_desc_index

\* last_desc_index is a local of decrypt_samples: each call has its own
ActiveKeyState(inst) == inst.last_desc_index

\* lines 773-793: each stage runs in a thread of its own (asyncio.to_thread),
\* so the other call may take the next step at any point
Switch ==
    /\ other # None
    /\ other' = Running
    /\ samples' = other.samples
    /\ track_id' = other.track_id
    /\ fairplay_key' = other.fairplay_key
    /\ pc' = other.pc
    /\ i' = other.i
    /\ decrypted_data' = other.decrypted_data
    /\ wbuf' = other.wbuf
    /\ wire' = other.wire
    /\ rx' = other.rx
    /\ sock' = other.sock
    /\ exc' = other.exc
    /\ result' = other.result
    /\ temp_file' = other.temp_file
    /\ output_file' = other.output_file
    /\ epc' = other.epc
    /\ raw_data' = other.raw_data
    /\ offset' = other.offset
    /\ boxes' = other.boxes
    /\ bi' = other.bi
    /\ moof_box' = other.moof_box
    /\ song_samples' = other.song_samples
    /\ ftyp_data' = other.ftyp_data
    /\ moov_data' = other.moov_data
    /\ last_desc_index' = ActiveKeyState(other)
    /\ UNCHANGED <<call, ret, outf, mux>>

NextConcurrent ==
    \/ CollectBox
    \/ PairStep
    \/ CallDecryptSamples
    \/ NextDecrypt
    \/ Switch

SpecConcurrent == InitConcurrent /\ [][NextConcurrent]_vars

\* the call an instance was made with
CallOf(inst) == CHOOSE c \in {ConcurrentCalls[1], ConcurrentCalls[2]} : c.bytes = inst.raw_data

\* the samples of a fragment: the run entries of positive size that fit,
\* cut from the payload back to back
FragmentSamples(fr) ==
    LET taken == Extracted(fr.desc, fr.desc.entries, Len(fr.payload), 0)
        sizes == [j \in 1..Len(taken) |-> taken[j].size]
    IN [j \in 1..Len(taken) |->
          LET before == Sum(SubSeq(sizes, 1, j - 1))
          IN SampleInfo(Slice(fr.payload, before, before + sizes[j]),
                        taken[j].duration, fr.desc.desc_index[1] - 1)]

\* the samples extraction finds in the container of a call run alone
AloneSamples(c) ==
    Flatten([k \in 1..Len(c.fragments) |-> FragmentSamples(c.fragments[k])])

\* what a run alone writes to its connection for the samples left, the
\* description of the last registered key being `last`
RECURSIVE AloneWire(_, _, _)
AloneWire(c, sample_list, last) ==
    IF sample_list = <<>> THEN <<W("term", <<0, 0, 0, 0, 0>>)>>
    ELSE LET s == Head(sample_list)
             uri == IF s.desc_index = 0 THEN PREFETCH_KEY ELSE c.fairplay_key
             id == IF uri = PREFETCH_KEY THEN <<48>> ELSE Utf8Encode(c.track_id)
             n == Len(s.data) - (Len(s.data) % 16)
         IN (IF s.desc_index = last THEN <<>>
             ELSE (IF last = NoKeySentinel THEN <<>> ELSE <<W("switch", <<0, 0, 0, 0>>)>>)
                  \o <<W("idlen", <<Len(id)>>), W("id", id),
                       W("keylen", <<Len(uri)>>), W("key", uri)>>)
            \o (IF n = 0 THEN <<>>
                ELSE <<W("clen", PackLE32(n)), W("cdata", SubSeq(s.data, 1, n))>>)
            \o AloneWire(c, Tail(sample_list), s.desc_index)

\* what a run alone returns from decrypt_samples
AlonePlain(c) ==
    LET ss == AloneSamples(c)
    IN Flatten([k \in 1..Len(ss) |-> DecryptedOf(ss[k])])

\* the instance is where a run alone on its own container would be: its
\* samples, its wire traffic, its plaintext and its files are those of its
\* own call
AsAlone(inst) ==
    LET c == CallOf(inst)
    IN /\ inst.track_id = c.track_id /\ inst.fairplay_key = c.fairplay_key
       /\ inst.epc = "done" => inst.song_samples = AloneSamples(c)
       /\ inst.pc # "extract" => inst.samples = AloneSamples(c)
       /\ IsInitial(inst.wire \o inst.wbuf, AloneWire(c, AloneSamples(c), NoKeySentinel))
       /\ inst.pc \in {"returned", "normalize", "done", "failed"} =>
            /\ inst.wire = AloneWire(c, AloneSamples(c), NoKeySentinel)
            /\ inst.result.data = AlonePlain(c)
       /\ IsMuxed(inst.temp_file) =>
            inst.temp_file = MuxedFile(AloneSamples(c), AlonePlain(c), c.bytes)
       /\ IsMuxed(inst.output_file) =>
            inst.output_file = MuxedFile(AloneSamples(c), AlonePlain(c), c.bytes)

\* a step of the running call leaves everything of the other call as it was
OtherUntouched ==
    \/ other' = other
    \/ other' = Running /\ Running' = other

\* C25: with two calls of decrypt_file on different containers interleaved
\* in any order, a step of one changes nothing of the other, and each has
\* its own samples, key state, connection traffic, plaintext and files,
\* those of a run alone on its container.
C25_InstancesIndependent ==
    /\ [](AsAlone(Running) /\ AsAlone(other))
    /\ [][OtherUntouched]_vars

\* both calls are done, their steps having been interleaved: the first
\* registered two keys for three samples, the other as well, and each kept
\* the muxer's file of its own container
C25_Witness ==
    /\ pc = "done" /\ other.pc = "done"
    /\ Len(samples) = 3 /\ Len(other.samples) = 3
    /\ raw_data # other.raw_data
    /\ Cardinality(At("switch")) = 1
    /\ wire # other.wire
    /\ IsMuxed(output_file) /\ IsMuxed(other.output_file)
    /\ output_file # other.output_file

-----------------------------------------------------------------------------
(* _parse_tfhd and _parse_trun called on one box payload *)

\* a tfhd as its packager describes it: whether it carries a base data
\* offset, its optional fields (Absent when the flag is clear), and flag
\* bits that stand for no field (0x010000 duration-is-empty, 0x020000
\* default-base-is-moof)
TfhdDescs ==
    [base_data_offset : BOOLEAN,
     desc_index : {Absent, <<2>>},
     default_duration : {Absent, <<512>>},
     default_size : {Absent, <<4>>},
     other_flags : {0, 196608}]

TfhdFlags(d) ==
    (IF d.base_data_offset THEN 1 ELSE 0) + Opt(2, d.desc_index)
    + Opt(8, d.default_duration) + Opt(16, d.default_size) + d.other_flags

\* the payload of the described tfhd: version and flags, track id 1, fields
TfhdPayload(d) ==
    <<0>> \o U24BE(TfhdFlags(d)) \o U32BE(1)
    \o (IF d.base_data_offset THEN Bytes(8, 32) ELSE <<>>)
    \o OptField(d.desc_index) \o OptField(d.default_duration)
    \o OptField(d.default_size)

\* tfhd_info as _parse_moof_mdat makes it (lines 177-178), and as an earlier
\* tfhd of the same traf may have left it
TfhdInfos ==
    {[desc_index |-> 0, default_duration |-> DefaultSampleDuration,
      default_size |-> DefaultSampleSize, flags |-> 0],
     [desc_index |-> 7, default_duration |-> 99, default_size |-> 9, flags |-> 2]}

\* a trun as its packager describes it: which header and per-sample fields
\* it carries, and the per-sample durations and sizes
TrunDescs ==
    [data_offset : BOOLEAN,
     first_sample_flags : BOOLEAN,
     run_durations : BOOLEAN,
     run_sizes : BOOLEAN,
     run_flags : BOOLEAN,
     run_offsets : BOOLEAN,
     entries : SeqsUpTo(RunEntries, MaxEntries)]

When(present, bytes) == IF present THEN bytes ELSE <<>>

\* the payload of the described trun: version and flags, sample_count, the
\* header fields, then per sample duration, size, flags and composition
\* time offset as flagged
TrunPayload(d) ==
    <<0>> \o U24BE((IF d.data_offset THEN 1 ELSE 0)
                   + (IF d.first_sample_flags THEN 4 ELSE 0)
                   + (IF d.run_durations THEN 256 ELSE 0)
                   + (IF d.run_sizes THEN 512 ELSE 0)
                   + (IF d.run_flags THEN 1024 ELSE 0)
                   + (IF d.run_offsets THEN 2048 ELSE 0))
    \o U32BE(Len(d.entries))
    \o When(d.data_offset, U32BE(5555))
    \o When(d.first_sample_flags, U32BE(6666))
    \o Flatten([k \in 1..Len(d.entries) |->
                  When(d.run_durations, U32BE(d.entries[k].duration))
                  \o When(d.run_sizes, U32BE(d.entries[k].size))
                  \o When(d.run_flags, U32BE(7777))
                  \o When(d.run_offsets, U32BE(8888))])

\* a call of _parse_tfhd on a tfhd payload cut to any length, or of
\* _parse_trun on a complete trun payload
InitFields ==
    /\ NoPipeline
    /\ \/ \E d \in TfhdDescs, info \in TfhdInfos :
            \E cut \in 0..Len(TfhdPayload(d)) :
               call = [fn |-> "_parse_tfhd", box |-> d,
                       data |-> SubSeq(TfhdPayload(d), 1, cut), tfhd_info |-> info]
       \/ \E d \in TrunDescs :
            call = [fn |-> "_parse_trun", box |-> d, data |-> TrunPayload(d)]
    /\ ret = None

\* _parse_tfhd(data, tfhd_info): the dict is updated in place
CallParseTfhd ==
    /\ call # None
    /\ call.fn = "_parse_tfhd"
    /\ ret = None
    /\ ret' = [value |-> ParseTfhd(call.data, call.tfhd_info)]
    /\ UNCHANGED <<dvars, evars, call, outf, mux, other>>

\* _parse_trun(data, tfhd_info)
CallParseTrun ==
    /\ call # None
    /\ call.fn = "_parse_trun"
    /\ ret = None
    /\ ret' = [value |-> ParseTrun(call.data)]
    /\ UNCHANGED <<dvars, evars, call, outf, mux, other>>

NextFields ==
    \/ CallParseTfhd
    \/ CallParseTrun

SpecFields == InitFields /\ [][NextFields]_vars

-----------------------------------------------------------------------------
(* Claims about the fields of tfhd and trun *)

\* the optional fields of the described tfhd in their fixed order: whether
\* the flag is set, the width, and the key of tfhd_info (none for the base
\* data offset)
TfhdFields(d) ==
    <<[flagged |-> d.base_data_offset, width |-> 8, key |-> "none"],
      [flagged |-> d.desc_index # Absent, width |-> 4, key |-> "desc_index"],
      [flagged |-> d.default_duration # Absent, width |-> 4, key |-> "default_duration"],
      [flagged |-> d.default_size # Absent, width |-> 4, key |-> "default_size"]>>

\* where each field that is flagged and fits in `len` bytes is read, going
\* through the fields in order from offset `off`: a set of [key, at]
RECURSIVE FieldsRead(_, _, _)
FieldsRead(fields, off, len) ==
    IF fields = <<>> THEN {}
    ELSE LET fd == Head(fields)
         IN IF fd.flagged /\ off + fd.width <= len
            THEN {[key |-> fd.key, at |-> off]}
                 \cup FieldsRead(Tail(fields), off + fd.width, len)
            ELSE FieldsRead(Tail(fields), off, len)

\* C26: _parse_tfhd goes through base-data-offset (8 bytes, 0x01, skipped),
\* sample-description-index (0x02), default-sample-duration (0x08) and
\* default-sample-size (0x10) in that order, reads each at the offset the
\* fields before it left, only when its flag is set and it fits; every other
\* entry of tfhd_info keeps its value, and a payload under 8 bytes changes
\* nothing.
C26_TfhdFieldsInOrder ==
    Returned("_parse_tfhd") =>
        LET d == call.box
            read == FieldsRead(TfhdFields(d), 8, Len(call.data))
        IN IF Len(call.data) < 8 THEN ret.value = call.tfhd_info
           ELSE /\ ret.value.flags = TfhdFlags(d)
                /\ \A key \in {"desc_index", "default_duration", "default_size"} :
                     /\ \A r \in read :
                          r.key = key => ret.value[key] = U32At(call.data, r.at)
                     /\ (~\E r \in read : r.key = key) =>
                          ret.value[key] = call.tfhd_info[key]
                /\ Len(call.data) = Len(TfhdPayload(d)) =>
                     /\ d.desc_index # Absent => ret.value.desc_index = d.desc_index[1]
                     /\ d.default_duration # Absent =>
                          ret.value.default_duration = d.default_duration[1]
                     /\ d.default_size # Absent =>
                          ret.value.default_size = d.default_size[1]

\* a complete tfhd with all four fields: the three values are read behind
\* the base data offset
C26_Witness ==
    /\ Returned("_parse_tfhd")
    /\ call.box.base_data_offset
    /\ Len(call.data) = 28
    /\ call.tfhd_info.desc_index = 7
    /\ ret.value.desc_index = 2
    /\ ret.value.default_duration = 512
    /\ ret.value.default_size = 4

\* the bytes of one entry of the described trun
Stride(d) ==
    (IF d.run_durations THEN 4 ELSE 0) + (IF d.run_sizes THEN 4 ELSE 0)
    + (IF d.run_flags THEN 4 ELSE 0) + (IF d.run_offsets THEN 4 ELSE 0)

\* where the entries of the described trun start
EntriesStart(d) ==
    8 + (IF d.data_offset THEN 4 ELSE 0) + (IF d.first_sample_flags THEN 4 ELSE 0)

\* C27: for a complete trun _parse_trun returns sample_count entries;
\* entry i holds the duration (0x100) and the size (0x200) read at
\* 8 + 4*[0x01] + 4*[0x04] + i*stride plus the widths of the per-sample
\* fields before them, the stride being 4 bytes per flag set among 0x100,
\* 0x200, 0x400, 0x800; nothing else is stored in an entry.
C27_TrunEntriesByStride ==
    Returned("_parse_trun") =>
        LET d == call.box
        IN /\ Len(ret.value) = Len(d.entries)
           /\ Len(ret.value) = U32At(call.data, 4)
           /\ \A k \in 1..Len(ret.value) :
                LET e == ret.value[k]
                    at == EntriesStart(d) + (k - 1) * Stride(d)
                IN /\ DOMAIN e = {key \in {"duration", "size"} :
                                    \/ key = "duration" /\ d.run_durations
                                    \/ key = "size" /\ d.run_sizes}
                   /\ d.run_durations =>
                        /\ e["duration"] = U32At(call.data, at)
                        /\ e["duration"] = d.entries[k].duration
                   /\ d.run_sizes =>
                        /\ e["size"] = U32At(call.data, at + (IF d.run_durations THEN 4 ELSE 0))
                        /\ e["size"] = d.entries[k].size

\* a trun with every header and per-sample field and two entries
C27_Witness ==
    /\ Returned("_parse_trun")
    /\ call.box.data_offset /\ call.box.first_sample_flags
    /\ call.box.run_durations /\ call.box.run_sizes
    /\ call.box.run_flags /\ call.box.run_offsets
    /\ Len(ret.value) = 2
    /\ ret.value[1]["size"] = 3
    /\ ret.value[2]["duration"] = 100

-----------------------------------------------------------------------------
(* extract_song on boxes with unusual size fields *)

\* most iterations of the first pass that are followed
MaxIterations == 6

\* size field 1 with an extended size of 0, of 3 (less than the header) and
\* of 20 (the box itself); a size field of 4 (less than the header); a
\* plain box of 12 bytes
WalkBoxes ==
    {U32BE(1) \o T_free \o U64BE(0) \o Bytes(4, 1),
     U32BE(1) \o T_free \o U64BE(3) \o Bytes(4, 1),
     ExtBox(T_free, Bytes(4, 1)),
     U32BE(4) \o T_free \o Bytes(4, 1),
     Box(T_free, Bytes(4, 1))}

WalkFiles == {Flatten(bs) : bs \in SeqsUpTo(WalkBoxes, MaxBoxes)}

InitWalk ==
    /\ raw_data \in WalkFiles
    /\ epc = "collect"
    /\ offset = 0
    /\ boxes = <<>>
    /\ bi = 1
    /\ moof_box = None
    /\ song_samples = <<>>
    /\ ftyp_data = <<>>
    /\ moov_data = <<>>
    /\ call = None
    /\ ret = None
    /\ outf = None
    /\ mux = None
    /\ other = None
    \* decrypt_file has not reached decrypt_samples
    /\ samples = <<>>
    /\ track_id = <<>>
    /\ fairplay_key = <<>>
    /\ pc = "extract"
    /\ i = 1
    /\ last_desc_index = NoKeySentinel
    /\ decrypted_data = <<>>
    /\ wbuf = <<>>
    /\ wire = <<>>
    /\ rx = <<>>
    /\ sock = "none"
    /\ exc = "none"
    /\ result = [ok |-> FALSE, data |-> <<>>]
    /\ temp_file = "absent"
    /\ output_file = "absent"

\* one iteration of the first pass, while fewer than MaxIterations boxes
\* have been collected
ScanStep ==
    /\ Len(boxes) < MaxIterations
    /\ CollectBox

NextWalk ==
    \/ ScanStep
    \/ PairStep

SpecWalk == InitWalk /\ [][NextWalk]_vars

\* C28: every iteration of the top-level scan of extract_song either ends
\* the scan or moves the offset forward, whatever the 32-bit size field and
\* the 64-bit extended size of the box it is at.
C28_ScanStopsOrAdvances ==
    [][epc = "collect" => (epc' # "collect" \/ offset' > offset)]_vars

-----------------------------------------------------------------------------
(* Claims about the slices of one fragment *)

\* the lengths of the samples returned
ReturnedLens == [k \in 1..Len(ret.value) |-> Len(ret.value[k].data)]

\* C29: the samples of one moof/mdat pair are non-empty slices of the mdat
\* payload lying back to back from offset 0 in the order of their run
\* entries: each is as long as the resolved size of its entry, starts where
\* the one before ends, and together they are no longer than the payload.
C29_SlicesBackToBack ==
    Returned("_parse_moof_mdat") =>
        LET taken == Extracted(call.fragment, call.fragment.entries,
                               Len(call.mdat_data), 0)
        IN /\ Len(ret.value) = Len(taken)
           /\ Sum(ReturnedLens) <= Len(call.mdat_data)
           /\ \A k \in 1..Len(ret.value) :
                LET start == Sum(SubSeq(ReturnedLens, 1, k - 1))
                IN /\ ReturnedLens[k] > 0
                   /\ ReturnedLens[k] = taken[k].size
                   /\ ret.value[k].data =
                        SubSeq(call.mdat_data, start + 1, start + ReturnedLens[k])

\* two samples of 3 and 5 bytes that fill the payload of 8 bytes
C29_Witness ==
    /\ Returned("_parse_moof_mdat")
    /\ Len(call.mdat_data) = 8
    /\ ReturnedLens = <<3, 5>>
    /\ ret.value[2].data = SubSeq(call.mdat_data, 4, 8)

-----------------------------------------------------------------------------
(* Claims about the socket *)

\* decrypt_samples has handed control back to its caller
Exited == pc \in {"returned", "raised", "normalize", "done", "failed"}

\* C30: whichever way decrypt_samples ends once the socket exists (normal
\* return, short read, failed connect, error while writing), the socket is
\* closed when control is back with the caller.
C30_SocketClosedOnExit == Exited => sock = "closed"

====
